---- MODULE Spec2Model ----
(***************************************************************************)
(* Stake ledger of packages/core/contracts/oracle/implementation/Staker.sol *)
(*                                                                         *)
(* Every public function of the contract is one action.  A call runs on a  *)
(* transaction record (the contract's storage plus the effects of the      *)
(* call); the internal functions are operators from records to records,    *)
(* composed in the order the Solidity code calls them.  A call that        *)
(* reverts leaves the storage as it was.                                   *)
(***************************************************************************)
EXTENDS Integers, FiniteSets, Sequences, TLC

\* ---------------------------------------------------------------- bounds
Voters == {"v1", "v2"}
Owner == "owner"
NoOne == "none"
MaxAmount == 2
MaxCustody == 2
MaxTime == 2
MaxRate == 1
MaxCoolDown == 1
StartTime == 1
MaxElapsed == 2
\* The contract's fixed-point scale is 1e18; the model keeps the same
\* multiply-then-divide arithmetic on a scale that fits the integers of TLC.
SCALE == 2

Callers == Voters \cup {Owner}
TokenOutcomes == {"ok", "revert"}
\* the two ways the custodian's interface lets a token call report failure
TokenFailures == {"revert", "false"}

\* ----------------------------------------------------------------- state
VARIABLES
    emissionRate,
    cumulativeActiveStake,
    cumulativePendingStake,
    rewardPerTokenStored,
    lastUpdateTime,
    unstakeCoolDown,
    voterStakes,
    custody,
    now,
    inReveal,
    \* audit of the reward flow (written by SpecAudit only)
    totalMinted,
    totalEmitted,
    \* GovernorV2 (written by SpecGovernor only)
    proposals,
    emergencyProposals,
    approved,
    ratified,
    \* the price service (written by SpecPrices only)
    results,
    updatePricesPromise,
    updatePricesProfiledPromise,
    consoleErrors,
    ended

ledgerVars == <<emissionRate, cumulativeActiveStake, cumulativePendingStake,
                rewardPerTokenStored, lastUpdateTime, unstakeCoolDown,
                voterStakes, custody>>
auditVars == <<totalMinted, totalEmitted>>
governorVars == <<proposals, emergencyProposals, approved, ratified>>
pricesVars == <<results, updatePricesPromise, updatePricesProfiledPromise,
                consoleErrors, ended>>
vars == <<emissionRate, cumulativeActiveStake, cumulativePendingStake,
          rewardPerTokenStored, lastUpdateTime, unstakeCoolDown,
          voterStakes, custody, now, inReveal,
          totalMinted, totalEmitted,
          proposals, emergencyProposals, approved, ratified,
          results, updatePricesPromise, updatePricesProfiledPromise,
          consoleErrors, ended>>

\* nothing audited yet
AuditIdle ==
    /\ totalMinted = 0
    /\ totalEmitted = 0

\* no governor deployed next to the ledger
GovernorIdle ==
    /\ proposals = <<>>
    /\ emergencyProposals = <<>>
    /\ approved = {}
    /\ ratified = {}

\* the six services whose update() updatePrices calls, in the order of the
\* array it passes to Promise.allSettled
Services == <<"collateralPrices", "syntheticPrices", "marketPrices",
              "empStats", "lspStats", "globalStats">>

\* update() not called yet
NotCalled == [status |-> "notCalled", reason |-> "none"]

\* no price service running next to the contracts
PricesIdle ==
    /\ results = [i \in 1..Len(Services) |-> NotCalled]
    /\ updatePricesPromise = "notCalled"
    /\ updatePricesProfiledPromise = "notCalled"
    /\ consoleErrors = <<>>
    /\ ended = FALSE

\* struct VoterStake, default-valued (the delegate field is never written
\* by this contract and is left out)
VoterStake0 ==
    [activeStake |-> 0, pendingUnstake |-> 0, pendingStake |-> 0,
     rewardsPaidPerToken |-> 0, outstandingRewards |-> 0,
     unstakeRequestTime |-> 0, lastRequestIndexConsidered |-> 0]

\* the storage at the start of a call, the clock's and the phase oracle's
\* answers during the call, and the call's outcome (ok: not reverted, ret:
\* the value returned, sent and minted: the tokens the custodian moved out
\* of custody and minted to the caller during the call)
Tx ==
    [emissionRate |-> emissionRate,
     cumulativeActiveStake |-> cumulativeActiveStake,
     cumulativePendingStake |-> cumulativePendingStake,
     rewardPerTokenStored |-> rewardPerTokenStored,
     lastUpdateTime |-> lastUpdateTime,
     unstakeCoolDown |-> unstakeCoolDown,
     voterStakes |-> voterStakes,
     custody |-> custody,
     time |-> now, reveal |-> inReveal,
     ok |-> TRUE, ret |-> 0, sent |-> 0, minted |-> 0]

Revert(s) == [s EXCEPT !.ok = FALSE]

\* --------------------------------------------------- custodian (votingToken)
\* tok is the custodian's answer to the call: "ok", a revert, or the boolean
\* false returned without moving any token
transferFrom(s, amount, tok) ==
    IF tok = "revert" THEN Revert(s)
    ELSE IF tok = "false" THEN s
    ELSE [s EXCEPT !.custody = @ + amount]

transfer(s, amount, tok) ==
    IF tok = "revert" \/ s.custody < amount THEN Revert(s)
    ELSE IF tok = "false" THEN s
    ELSE [s EXCEPT !.custody = @ - amount, !.sent = @ + amount]

\* mint is wrapped in require(): a false answer reverts the call
mint(s, amount, tok) ==
    IF tok # "ok" THEN Revert(s)
    ELSE [s EXCEPT !.minted = @ + amount]

\* ------------------------------------------------- hooks and view functions
getCurrentTime(s) == s.time

inActiveReveal(s) == s.reveal

getStartingIndexForStaker == 0

getCumulativeStake(s) == s.cumulativeActiveStake + s.cumulativePendingStake

\* faulty variant: funds awaiting withdrawal still count as stake
getVoterStake_CountsPendingUnstake(s, voterAddress) ==
    s.voterStakes[voterAddress].activeStake + s.voterStakes[voterAddress].pendingStake
    + s.voterStakes[voterAddress].pendingUnstake

\* faulty variant: stake waiting for promotion does not count as stake
getVoterStake_ActiveOnly(s, voterAddress) ==
    s.voterStakes[voterAddress].activeStake

getVoterStake(s, voterAddress) ==
    s.voterStakes[voterAddress].activeStake + s.voterStakes[voterAddress].pendingStake

\* rewardPerToken() reverts when the checked subtraction underflows
rewardPerTokenReverts(s) ==
    getCumulativeStake(s) # 0 /\ getCurrentTime(s) < s.lastUpdateTime

\* faulty variant: the zero-stake branch returns 0 instead of the stored accumulator
rewardPerToken_ZeroWhenNoStake(s) ==
    IF getCumulativeStake(s) = 0
    THEN 0
    ELSE s.rewardPerTokenStored
         + ((getCurrentTime(s) - s.lastUpdateTime) * s.emissionRate * SCALE)
           \div getCumulativeStake(s)

\* faulty variant: the reward of the interval is not scaled up before the division
rewardPerToken_Unscaled(s) ==
    IF getCumulativeStake(s) = 0
    THEN s.rewardPerTokenStored
    ELSE s.rewardPerTokenStored
         + ((getCurrentTime(s) - s.lastUpdateTime) * s.emissionRate)
           \div getCumulativeStake(s)

rewardPerToken(s) ==
    IF getCumulativeStake(s) = 0
    THEN s.rewardPerTokenStored
    ELSE s.rewardPerTokenStored
         + ((getCurrentTime(s) - s.lastUpdateTime) * s.emissionRate * SCALE)
           \div getCumulativeStake(s)

outstandingRewardsReverts(s, voterAddress) ==
    \/ rewardPerTokenReverts(s)
    \/ rewardPerToken(s) < s.voterStakes[voterAddress].rewardsPaidPerToken

\* faulty variant: the voter's share is computed on the total stake
outstandingRewards_OnCumulativeStake(s, voterAddress) ==
    ((getCumulativeStake(s)
      * (rewardPerToken(s) - s.voterStakes[voterAddress].rewardsPaidPerToken)) \div SCALE)
    + s.voterStakes[voterAddress].outstandingRewards

\* faulty variant: the rewards already stored for the voter are not carried over
outstandingRewards_WithoutStored(s, voterAddress) ==
    (getVoterStake(s, voterAddress)
     * (rewardPerToken(s) - s.voterStakes[voterAddress].rewardsPaidPerToken)) \div SCALE

outstandingRewards(s, voterAddress) ==
    ((getVoterStake(s, voterAddress)
      * (rewardPerToken(s) - s.voterStakes[voterAddress].rewardsPaidPerToken)) \div SCALE)
    + s.voterStakes[voterAddress].outstandingRewards

\* ------------------------------------------------------ internal functions
\* voterAddress = NoOne stands for address(0)
\* faulty variant: the settlement credits the voter but leaves rewardsPaidPerToken behind
_updateReward_KeepsRewardsPaid(s, voterAddress) ==
    IF ~s.ok THEN s
    ELSE IF rewardPerTokenReverts(s) THEN Revert(s)
    ELSE LET newRewardPerToken == rewardPerToken(s)
             g == [s EXCEPT !.rewardPerTokenStored = newRewardPerToken,
                            !.lastUpdateTime = getCurrentTime(s)]
         IN  IF voterAddress = NoOne THEN g
             ELSE IF outstandingRewardsReverts(g, voterAddress) THEN Revert(s)
             ELSE [g EXCEPT
                     !.voterStakes[voterAddress].outstandingRewards =
                         outstandingRewards(g, voterAddress)]

\* faulty variant: the settlement stores the accumulator but not the time it was settled at
_updateReward_KeepsLastUpdateTime(s, voterAddress) ==
    IF ~s.ok THEN s
    ELSE IF rewardPerTokenReverts(s) THEN Revert(s)
    ELSE LET newRewardPerToken == rewardPerToken(s)
             g == [s EXCEPT !.rewardPerTokenStored = newRewardPerToken]
         IN  IF voterAddress = NoOne THEN g
             ELSE IF outstandingRewardsReverts(g, voterAddress) THEN Revert(s)
             ELSE [g EXCEPT
                     !.voterStakes[voterAddress].outstandingRewards =
                         outstandingRewards(g, voterAddress),
                     !.voterStakes[voterAddress].rewardsPaidPerToken =
                         newRewardPerToken]

_updateReward(s, voterAddress) ==
    IF ~s.ok THEN s
    ELSE IF rewardPerTokenReverts(s) THEN Revert(s)
    ELSE LET newRewardPerToken == rewardPerToken(s)
             g == [s EXCEPT !.rewardPerTokenStored = newRewardPerToken,
                            !.lastUpdateTime = getCurrentTime(s)]
         IN  IF voterAddress = NoOne THEN g
             ELSE IF outstandingRewardsReverts(g, voterAddress) THEN Revert(s)
             ELSE [g EXCEPT
                     !.voterStakes[voterAddress].outstandingRewards =
                         outstandingRewards(g, voterAddress),
                     !.voterStakes[voterAddress].rewardsPaidPerToken =
                         newRewardPerToken]

\* faulty variant: the promotion forgets to take the stake out of cumulativePendingStake
_updateActiveStake_KeepsCumulativePending(s, voterAddress) ==
    IF ~s.ok THEN s
    ELSE IF inActiveReveal(s) THEN s
    ELSE LET p == s.voterStakes[voterAddress].pendingStake
         IN  [s EXCEPT
                !.cumulativeActiveStake = @ + p,
                !.voterStakes[voterAddress].activeStake = @ + p,
                !.voterStakes[voterAddress].pendingStake = 0]

_updateActiveStake(s, voterAddress) ==
    IF ~s.ok THEN s
    ELSE IF inActiveReveal(s) THEN s
    ELSE LET p == s.voterStakes[voterAddress].pendingStake
         IN  IF s.cumulativePendingStake < p THEN Revert(s)
             ELSE [s EXCEPT
                     !.cumulativeActiveStake = @ + p,
                     !.cumulativePendingStake = @ - p,
                     !.voterStakes[voterAddress].activeStake = @ + p,
                     !.voterStakes[voterAddress].pendingStake = 0]

\* faulty variant: the trackers of every voter are updated, not only the caller's
_updateTrackers_EveryVoter(s, voterAddress) ==
    _updateActiveStake(
        _updateReward(_updateActiveStake(_updateReward(s, "v1"), "v1"), "v2"), "v2")

\* faulty variant: the trackers are updated without the promotion step
_updateTrackers_RewardOnly(s, voterAddress) ==
    _updateReward(s, voterAddress)

_updateTrackers(s, voterAddress) ==
    _updateActiveStake(_updateReward(s, voterAddress), voterAddress)

\* ------------------------------------------------------- public functions
\* faulty variant: the stake is booked as active whatever the phase
stake_IgnoresPhase(s0, sender, amount, tok) ==
    LET s1 == IF getVoterStake(s0, sender) + s0.voterStakes[sender].pendingStake = 0
              THEN [s0 EXCEPT !.voterStakes[sender].lastRequestIndexConsidered =
                                  getStartingIndexForStaker]
              ELSE s0
        s2 == _updateTrackers(s1, sender)
        s3 == [s2 EXCEPT !.voterStakes[sender].activeStake = @ + amount,
                         !.cumulativeActiveStake = @ + amount]
    IN  IF ~s2.ok THEN s2
        ELSE transferFrom(s3, amount, tok)

\* faulty variant: the caller's stake is set to the amount instead of raised by it
stake_SetsStake(s0, sender, amount, tok) ==
    LET s1 == IF getVoterStake(s0, sender) + s0.voterStakes[sender].pendingStake = 0
              THEN [s0 EXCEPT !.voterStakes[sender].lastRequestIndexConsidered =
                                  getStartingIndexForStaker]
              ELSE s0
        s2 == _updateTrackers(s1, sender)
        s3 == IF inActiveReveal(s2)
              THEN [s2 EXCEPT
                      !.cumulativePendingStake =
                          @ - s2.voterStakes[sender].pendingStake + amount,
                      !.custody = @ - s2.voterStakes[sender].pendingStake,
                      !.voterStakes[sender].pendingStake = amount]
              ELSE [s2 EXCEPT
                      !.cumulativeActiveStake =
                          @ - s2.voterStakes[sender].activeStake + amount,
                      !.custody = @ - s2.voterStakes[sender].activeStake,
                      !.voterStakes[sender].activeStake = amount]
    IN  IF ~s2.ok THEN s2
        ELSE transferFrom(s3, amount, tok)

\* faulty variant: the new amount is booked before the trackers are updated
stake_SettlesAfterAdding(s0, sender, amount, tok) ==
    LET s1 == IF getVoterStake(s0, sender) + s0.voterStakes[sender].pendingStake = 0
              THEN [s0 EXCEPT !.voterStakes[sender].lastRequestIndexConsidered =
                                  getStartingIndexForStaker]
              ELSE s0
        s2 == IF inActiveReveal(s1)
              THEN [s1 EXCEPT !.voterStakes[sender].pendingStake = @ + amount,
                              !.cumulativePendingStake = @ + amount]
              ELSE [s1 EXCEPT !.voterStakes[sender].activeStake = @ + amount,
                              !.cumulativeActiveStake = @ + amount]
        s3 == _updateTrackers(s2, sender)
    IN  IF ~s3.ok THEN s3
        ELSE transferFrom(s3, amount, tok)

stake(s0, sender, amount, tok) ==
    LET s1 == IF getVoterStake(s0, sender) + s0.voterStakes[sender].pendingStake = 0
              THEN [s0 EXCEPT !.voterStakes[sender].lastRequestIndexConsidered =
                                  getStartingIndexForStaker]
              ELSE s0
        s2 == _updateTrackers(s1, sender)
        s3 == IF inActiveReveal(s2)
              THEN [s2 EXCEPT !.voterStakes[sender].pendingStake = @ + amount,
                              !.cumulativePendingStake = @ + amount]
              ELSE [s2 EXCEPT !.voterStakes[sender].activeStake = @ + amount,
                              !.cumulativeActiveStake = @ + amount]
    IN  IF ~s2.ok THEN s2
        ELSE transferFrom(s3, amount, tok)

\* faulty variant: the requested amount stays in activeStake as well
requestUnstake_KeepsActiveStake(s0, sender, amount) ==
    IF inActiveReveal(s0) THEN Revert(s0)
    ELSE LET s1 == _updateTrackers(s0, sender)
             voterStake == s1.voterStakes[sender]
         IN  IF ~s1.ok THEN s1
             ELSE IF ~(voterStake.activeStake >= amount) THEN Revert(s1)
             ELSE IF ~(voterStake.pendingUnstake = 0) THEN Revert(s1)
             ELSE IF s1.cumulativeActiveStake < amount THEN Revert(s1)
             ELSE [s1 EXCEPT
                     !.cumulativeActiveStake = @ - amount,
                     !.voterStakes[sender].pendingUnstake = amount,
                     !.voterStakes[sender].unstakeRequestTime = getCurrentTime(s1)]

\* faulty variant: the request leaves cumulativeActiveStake as it was
requestUnstake_KeepsCumulativeActive(s0, sender, amount) ==
    IF inActiveReveal(s0) THEN Revert(s0)
    ELSE LET s1 == _updateTrackers(s0, sender)
             voterStake == s1.voterStakes[sender]
         IN  IF ~s1.ok THEN s1
             ELSE IF ~(voterStake.activeStake >= amount) THEN Revert(s1)
             ELSE IF ~(voterStake.pendingUnstake = 0) THEN Revert(s1)
             ELSE [s1 EXCEPT
                     !.voterStakes[sender].pendingUnstake = amount,
                     !.voterStakes[sender].activeStake = @ - amount,
                     !.voterStakes[sender].unstakeRequestTime = getCurrentTime(s1)]

\* faulty variant: the request is accepted in the restricted phase too
requestUnstake_NoPhaseCheck(s0, sender, amount) ==
    LET s1 == _updateTrackers(s0, sender)
        voterStake == s1.voterStakes[sender]
    IN  IF ~s1.ok THEN s1
        ELSE IF ~(voterStake.activeStake >= amount) THEN Revert(s1)
        ELSE IF ~(voterStake.pendingUnstake = 0) THEN Revert(s1)
        ELSE IF s1.cumulativeActiveStake < amount THEN Revert(s1)
        ELSE [s1 EXCEPT
                !.cumulativeActiveStake = @ - amount,
                !.voterStakes[sender].pendingUnstake = amount,
                !.voterStakes[sender].activeStake = @ - amount,
                !.voterStakes[sender].unstakeRequestTime = getCurrentTime(s1)]

requestUnstake(s0, sender, amount) ==
    IF inActiveReveal(s0) THEN Revert(s0)
    ELSE LET s1 == _updateTrackers(s0, sender)
             voterStake == s1.voterStakes[sender]
         IN  IF ~s1.ok THEN s1
             ELSE IF ~(voterStake.activeStake >= amount) THEN Revert(s1)
             ELSE IF ~(voterStake.pendingUnstake = 0) THEN Revert(s1)
             ELSE IF s1.cumulativeActiveStake < amount THEN Revert(s1)
             ELSE [s1 EXCEPT
                     !.cumulativeActiveStake = @ - amount,
                     !.voterStakes[sender].pendingUnstake = amount,
                     !.voterStakes[sender].activeStake = @ - amount,
                     !.voterStakes[sender].unstakeRequestTime = getCurrentTime(s1)]

\* faulty variant: a request is executable from the moment it is made
executeUnstakeBeforeTransfer_NoCoolDown(s0, sender) ==
    LET s1 == _updateTrackers(s0, sender)
        voterStake == s1.voterStakes[sender]
        tokensToSend == voterStake.pendingUnstake
    IN  IF ~s1.ok THEN s1
        ELSE IF ~(/\ voterStake.unstakeRequestTime # 0
                  /\ getCurrentTime(s1) >= voterStake.unstakeRequestTime)
             THEN Revert(s1)
        ELSE IF tokensToSend > 0
             THEN [s1 EXCEPT
                     !.voterStakes[sender].pendingUnstake = 0,
                     !.voterStakes[sender].unstakeRequestTime = 0]
        ELSE s1

\* faulty variant: the tokens are sent before pendingUnstake and unstakeRequestTime are cleared
executeUnstakeBeforeTransfer_NotYetCleared(s0, sender) ==
    LET s1 == _updateTrackers(s0, sender)
        voterStake == s1.voterStakes[sender]
    IN  IF ~s1.ok THEN s1
        ELSE IF ~(/\ voterStake.unstakeRequestTime # 0
                  /\ getCurrentTime(s1) >= voterStake.unstakeRequestTime + s1.unstakeCoolDown)
             THEN Revert(s1)
        ELSE s1

\* the storage at the moment executeUnstake() hands control to
\* votingToken.transfer
executeUnstakeBeforeTransfer(s0, sender) ==
    LET s1 == _updateTrackers(s0, sender)
        voterStake == s1.voterStakes[sender]
        tokensToSend == voterStake.pendingUnstake
    IN  IF ~s1.ok THEN s1
        ELSE IF ~(/\ voterStake.unstakeRequestTime # 0
                  /\ getCurrentTime(s1) >= voterStake.unstakeRequestTime + s1.unstakeCoolDown)
             THEN Revert(s1)
        ELSE IF tokensToSend > 0
             THEN [s1 EXCEPT
                     !.voterStakes[sender].pendingUnstake = 0,
                     !.voterStakes[sender].unstakeRequestTime = 0]
        ELSE s1

executeUnstake(s0, sender, tok) ==
    LET tokensToSend == _updateTrackers(s0, sender).voterStakes[sender].pendingUnstake
        s2 == executeUnstakeBeforeTransfer(s0, sender)
    IN  IF ~s2.ok THEN s2
        ELSE IF tokensToSend > 0 THEN transfer(s2, tokensToSend, tok)
        ELSE s2

\* the storage at the moment withdrawRewards() hands control to
\* votingToken.mint
withdrawRewardsBeforeMint(s0, sender) ==
    LET s1 == _updateTrackers(s0, sender)
        tokensToMint == s1.voterStakes[sender].outstandingRewards
    IN  IF ~s1.ok THEN s1
        ELSE IF tokensToMint > 0
             THEN [s1 EXCEPT !.voterStakes[sender].outstandingRewards = 0]
        ELSE s1

\* faulty variant: the stored rewards are paid without settling the voter first
withdrawRewards_PaysStoredOnly(s0, sender, tok) ==
    LET tokensToMint == s0.voterStakes[sender].outstandingRewards
    IN  IF tokensToMint > 0
        THEN [mint([s0 EXCEPT !.voterStakes[sender].outstandingRewards = 0],
                   tokensToMint, tok)
              EXCEPT !.ret = tokensToMint]
        ELSE [s0 EXCEPT !.ret = 0]

\* faulty variant: the rewards are minted but the voter's outstandingRewards is not cleared
withdrawRewards_KeepsOutstanding(s0, sender, tok) ==
    LET s1 == _updateTrackers(s0, sender)
        tokensToMint == s1.voterStakes[sender].outstandingRewards
    IN  IF ~s1.ok THEN s1
        ELSE IF tokensToMint > 0
             THEN [mint(s1, tokensToMint, tok) EXCEPT !.ret = tokensToMint]
        ELSE [s1 EXCEPT !.ret = 0]

withdrawRewards(s0, sender, tok) ==
    LET tokensToMint == _updateTrackers(s0, sender).voterStakes[sender].outstandingRewards
        s2 == withdrawRewardsBeforeMint(s0, sender)
    IN  IF ~s2.ok THEN s2
        ELSE IF tokensToMint > 0
             THEN [mint(s2, tokensToMint, tok) EXCEPT !.ret = tokensToMint]
        ELSE [s2 EXCEPT !.ret = 0]

\* faulty variant: a failed unstake step is skipped and the rewards are paid all the same
exit_SkipsFailedUnstake(s0, sender, tok1, tok2) ==
    LET s1 == executeUnstake(s0, sender, tok1)
    IN  IF ~s1.ok THEN withdrawRewards(s0, sender, tok2)
        ELSE withdrawRewards(s1, sender, tok2)

exit(s0, sender, tok1, tok2) ==
    LET s1 == executeUnstake(s0, sender, tok1)
    IN  IF ~s1.ok THEN s1 ELSE withdrawRewards(s1, sender, tok2)

\* faulty variant: the new rate is stored without settling the accumulator first
setEmissionRate_NoSettlement(s0, sender, _emissionRate) ==
    IF sender # Owner THEN Revert(s0)
    ELSE [s0 EXCEPT !.emissionRate = _emissionRate]

\* onlyOwner (OpenZeppelin Ownable): reverts unless the caller is the owner
setEmissionRate(s0, sender, _emissionRate) ==
    IF sender # Owner THEN Revert(s0)
    ELSE LET s1 == _updateReward(s0, NoOne)
         IN  IF ~s1.ok THEN s1 ELSE [s1 EXCEPT !.emissionRate = _emissionRate]

\* faulty variant: the cool-down setter settles the accumulator like the rate setter
setUnstakeCoolDown_Settles(s0, sender, _unstakeCoolDown) ==
    IF sender # Owner THEN Revert(s0)
    ELSE LET s1 == _updateReward(s0, NoOne)
         IN  IF ~s1.ok THEN s1 ELSE [s1 EXCEPT !.unstakeCoolDown = _unstakeCoolDown]

\* faulty variant: the cool-down setter lacks the onlyOwner modifier
setUnstakeCoolDown_AnyCaller(s0, sender, _unstakeCoolDown) ==
    [s0 EXCEPT !.unstakeCoolDown = _unstakeCoolDown]

setUnstakeCoolDown(s0, sender, _unstakeCoolDown) ==
    IF sender # Owner THEN Revert(s0)
    ELSE [s0 EXCEPT !.unstakeCoolDown = _unstakeCoolDown]

\* ----------------------------------------------------------------- steps
\* the storage after the call that ends with transaction record s
Committed(s) ==
    /\ emissionRate' = s.emissionRate
    /\ cumulativeActiveStake' = s.cumulativeActiveStake
    /\ cumulativePendingStake' = s.cumulativePendingStake
    /\ rewardPerTokenStored' = s.rewardPerTokenStored
    /\ lastUpdateTime' = s.lastUpdateTime
    /\ unstakeCoolDown' = s.unstakeCoolDown
    /\ voterStakes' = s.voterStakes
    /\ custody' = s.custody

\* faulty variant: a rejected call returns early and keeps what it wrote before the failing check
Call_KeepsWritesOfRejected(s) ==
    /\ Committed(s)
    /\ UNCHANGED <<now, inReveal, auditVars, governorVars, pricesVars>>

\* a call either commits its transaction record or reverts as a whole; the
\* clock and the phase do not move during a call
Call(s) ==
    /\ IF s.ok THEN Committed(s) ELSE UNCHANGED ledgerVars
    /\ UNCHANGED <<now, inReveal, auditVars, governorVars, pricesVars>>

Init ==
    /\ emissionRate \in 0..MaxRate
    /\ unstakeCoolDown \in 0..MaxCoolDown
    /\ cumulativeActiveStake = 0
    /\ cumulativePendingStake = 0
    /\ rewardPerTokenStored = 0
    /\ lastUpdateTime = 0
    /\ voterStakes = [v \in Voters |-> VoterStake0]
    /\ custody = 0
    /\ now = StartTime
    /\ inReveal = FALSE
    /\ AuditIdle
    /\ GovernorIdle
    /\ PricesIdle

Stake ==
    \E c \in Voters, a \in 0..MaxAmount, tok \in TokenOutcomes :
        /\ custody + a <= MaxCustody
        /\ Call(stake(Tx, c, a, tok))

RequestUnstake ==
    \E c \in Voters, a \in 0..MaxAmount :
        Call(requestUnstake(Tx, c, a))

ExecuteUnstake ==
    \E c \in Voters, tok \in TokenOutcomes :
        Call(executeUnstake(Tx, c, tok))

WithdrawRewards ==
    \E c \in Voters, tok \in TokenOutcomes :
        Call(withdrawRewards(Tx, c, tok))

Exit ==
    \E c \in Voters, tok1 \in TokenOutcomes, tok2 \in TokenOutcomes :
        Call(exit(Tx, c, tok1, tok2))

SetEmissionRate ==
    \E c \in Callers, r \in 0..MaxRate :
        Call(setEmissionRate(Tx, c, r))

SetUnstakeCoolDown ==
    \E c \in Callers, d \in 0..MaxCoolDown :
        Call(setUnstakeCoolDown(Tx, c, d))

\* the clock provider advances (Testable.getCurrentTime)
Tick ==
    /\ now < MaxTime
    /\ now' = now + 1
    /\ UNCHANGED <<ledgerVars, inReveal, auditVars, governorVars, pricesVars>>

\* the phase oracle changes its answer (override of inActiveReveal)
ToggleReveal ==
    /\ inReveal' = ~inReveal
    /\ UNCHANGED <<ledgerVars, now, auditVars, governorVars, pricesVars>>

Next ==
    \/ Stake
    \/ RequestUnstake
    \/ ExecuteUnstake
    \/ WithdrawRewards
    \/ Exit
    \/ SetEmissionRate
    \/ SetUnstakeCoolDown
    \/ Tick
    \/ ToggleReveal

Spec == Init /\ [][Next]_vars

\* ------------------------------------------------------------ type check
TypeOK ==
    /\ emissionRate \in 0..MaxRate
    /\ unstakeCoolDown \in 0..MaxCoolDown
    /\ cumulativeActiveStake \in Nat
    /\ cumulativePendingStake \in Nat
    /\ rewardPerTokenStored \in Nat
    /\ lastUpdateTime \in 0..MaxTime
    /\ custody \in Nat
    /\ now \in StartTime..MaxTime
    /\ inReveal \in BOOLEAN
    /\ \A v \in Voters :
          /\ voterStakes[v].activeStake \in Nat
          /\ voterStakes[v].pendingStake \in Nat
          /\ voterStakes[v].pendingUnstake \in Nat
          /\ voterStakes[v].outstandingRewards \in Nat
          /\ voterStakes[v].rewardsPaidPerToken \in Nat
          /\ voterStakes[v].unstakeRequestTime \in 0..MaxTime
\* ================================================================= claims
RECURSIVE SumOver(_, _)
SumOver(f, S) ==
    IF S = {} THEN 0
    ELSE LET x == CHOOSE y \in S : TRUE IN f[x] + SumOver(f, S \ {x})

\* C1: after every operation, cumulativeActiveStake is the sum of the voters'
\* activeStake and cumulativePendingStake is the sum of the voters' pendingStake.
C1_CumulativeStakeIsSum ==
    /\ cumulativeActiveStake =
           SumOver([v \in Voters |-> voterStakes[v].activeStake], Voters)
    /\ cumulativePendingStake =
           SumOver([v \in Voters |-> voterStakes[v].pendingStake], Voters)

\* stake has been placed outside and inside the restricted phase: one voter
\* holds active stake while another still holds pending stake
C1_Witness ==
    \E v \in Voters, w \in Voters :
        /\ v # w
        /\ voterStakes[v].activeStake > 0
        /\ voterStakes[w].pendingStake > 0
        /\ cumulativeActiveStake > 0
        /\ cumulativePendingStake > 0

\* C2: rewardPerTokenStored never decreases: no step of the ledger (the clock
\* only moving forward) leaves it smaller than it was.
C2_AccumulatorNeverDecreases ==
    [][rewardPerTokenStored' >= rewardPerTokenStored]_vars

\* the accumulator has grown, and all stake has since left the counters (the
\* branch of rewardPerToken that keeps the stored value is the one in use)
C2_Witness ==
    /\ rewardPerTokenStored > 0
    /\ cumulativeActiveStake + cumulativePendingStake = 0
    /\ lastUpdateTime = now
\* the storage left by the call that ended with record s, at the start of a
\* later call made at time t in the same phase
Later(s, t) == [s EXCEPT !.time = t, !.ret = 0, !.sent = 0, !.minted = 0]

Amounts == 0..MaxAmount
Times == now..(now + MaxElapsed)

\* C3: once a voter has requested an unstake, executeUnstake fails while
\* now < unstakeRequestTime + unstakeCoolDown; from then on it succeeds, sends
\* pendingUnstake to the caller, zeroes pendingUnstake and unstakeRequestTime,
\* and every further executeUnstake without a new request fails.
C3_ExecuteUnstakeExactlyOnce ==
    \A c \in Voters :
        LET vs == voterStakes[c]
            r == executeUnstake(Tx, c, "ok")
        IN  vs.unstakeRequestTime # 0 =>
              /\ now < vs.unstakeRequestTime + unstakeCoolDown => ~r.ok
              /\ now >= vs.unstakeRequestTime + unstakeCoolDown =>
                    /\ r.ok
                    /\ custody - r.custody = vs.pendingUnstake
                    /\ r.voterStakes[c].pendingUnstake = 0
                    /\ r.voterStakes[c].unstakeRequestTime = 0
                    /\ \A t \in Times : ~executeUnstake(Later(r, t), c, "ok").ok

\* C4: once a requestUnstake by a voter has succeeded, every further
\* requestUnstake by that voter fails until the request has been executed.
C4_OneOutstandingRequest ==
    \A c \in Voters, a1 \in Amounts, a2 \in Amounts :
        LET r1 == requestUnstake(Tx, c, a1)
        IN  r1.ok => \A t \in Times : ~requestUnstake(Later(r1, t), c, a2).ok

\* C5 as stated: a successful requestUnstake(amount) leaves the caller's
\* activeStake and cumulativeActiveStake smaller by amount than before the
\* call, sets pendingUnstake to amount and unstakeRequestTime to the current
\* time, and moves no tokens.
C5_AsStated ==
    \A c \in Voters, a \in Amounts :
        LET r == requestUnstake(Tx, c, a)
        IN  r.ok =>
              /\ r.voterStakes[c].activeStake = voterStakes[c].activeStake - a
              /\ r.cumulativeActiveStake = cumulativeActiveStake - a
              /\ r.voterStakes[c].pendingUnstake = a
              /\ r.voterStakes[c].unstakeRequestTime = now
              /\ r.custody = custody

\* C5 (amended): a successful requestUnstake(amount) first promotes the
\* caller's pendingStake, so activeStake becomes activeStake + pendingStake -
\* amount and cumulativeActiveStake becomes cumulativeActiveStake +
\* pendingStake - amount (pendingStake and cumulativePendingStake losing the
\* promoted stake); pendingUnstake becomes amount, unstakeRequestTime the
\* current time, and no tokens move.
C5_RequestUnstakeEffect ==
    \A c \in Voters, a \in Amounts :
        LET r == requestUnstake(Tx, c, a)
            p == voterStakes[c].pendingStake
        IN  r.ok =>
              /\ r.voterStakes[c].activeStake = voterStakes[c].activeStake + p - a
              /\ r.cumulativeActiveStake = cumulativeActiveStake + p - a
              /\ r.voterStakes[c].pendingStake = 0
              /\ r.cumulativePendingStake = cumulativePendingStake - p
              /\ r.voterStakes[c].pendingUnstake = a
              /\ r.voterStakes[c].unstakeRequestTime = now
              /\ r.custody = custody

\* an unstake request of a voter has just been granted: part of the active
\* stake is left, the rest is pending unstake, stamped with the current time
C5_Witness ==
    \E c \in Voters :
        /\ voterStakes[c].pendingUnstake > 0
        /\ voterStakes[c].activeStake > 0
        /\ voterStakes[c].unstakeRequestTime = now
        /\ voterStakes[c].pendingStake = 0
        /\ custody = voterStakes[c].pendingUnstake + voterStakes[c].activeStake

\* C6 as stated: requestUnstake(amount) fails in the restricted phase, and
\* fails whenever amount exceeds the caller's activeStake at the time of the
\* call.
C6_AsStated ==
    \A c \in Voters, a \in Amounts :
        LET r == requestUnstake(Tx, c, a)
        IN  /\ inReveal => ~r.ok
            /\ a > voterStakes[c].activeStake => ~r.ok

\* C6 (amended): requestUnstake(amount) fails in the restricted phase, and
\* fails whenever amount exceeds the caller's activeStake + pendingStake (the
\* active stake once the call has promoted the caller's pending stake).
C6_RequestUnstakeRejected ==
    \A c \in Voters, a \in Amounts :
        LET r == requestUnstake(Tx, c, a)
        IN  /\ inReveal => ~r.ok
            /\ a > voterStakes[c].activeStake + voterStakes[c].pendingStake => ~r.ok

\* in the restricted phase a voter with active stake and no request is turned
\* away, and outside it a voter is turned away for one unit more than it holds
C6_Witness ==
    \E c \in Voters :
        /\ voterStakes[c].pendingUnstake = 0
        /\ voterStakes[c].activeStake = 1
        /\ voterStakes[c].pendingStake = 0
        /\ ~requestUnstake(Tx, c, 2).ok
        /\ \/ inReveal /\ ~requestUnstake(Tx, c, 1).ok
           \/ ~inReveal /\ requestUnstake(Tx, c, 1).ok

\* C7 as stated: stake(amount) adds exactly amount to the caller's pendingStake
\* and to cumulativePendingStake in the restricted phase, and otherwise exactly
\* amount to the caller's activeStake and to cumulativeActiveStake; in both
\* cases custody grows by amount.
C7_AsStated ==
    \A c \in Voters, a \in Amounts :
        LET r == stake(Tx, c, a, "ok")
        IN  r.ok =>
              /\ r.custody = custody + a
              /\ IF inReveal
                 THEN /\ r.voterStakes[c].pendingStake = voterStakes[c].pendingStake + a
                      /\ r.cumulativePendingStake = cumulativePendingStake + a
                 ELSE /\ r.voterStakes[c].activeStake = voterStakes[c].activeStake + a
                      /\ r.cumulativeActiveStake = cumulativeActiveStake + a

\* C7 (amended): in the restricted phase stake(amount) adds exactly amount to
\* the caller's pendingStake and to cumulativePendingStake and leaves the
\* active figures alone; otherwise it adds amount plus the caller's previous
\* pendingStake, which it promotes, to the caller's activeStake and to
\* cumulativeActiveStake, and takes the promoted stake out of pendingStake and
\* cumulativePendingStake.  In both cases custody grows by amount.
C7_StakeEffect ==
    \A c \in Voters, a \in Amounts :
        LET r == stake(Tx, c, a, "ok")
            p == voterStakes[c].pendingStake
        IN  r.ok =>
              /\ r.custody = custody + a
              /\ IF inReveal
                 THEN /\ r.voterStakes[c].pendingStake = p + a
                      /\ r.cumulativePendingStake = cumulativePendingStake + a
                      /\ r.voterStakes[c].activeStake = voterStakes[c].activeStake
                      /\ r.cumulativeActiveStake = cumulativeActiveStake
                 ELSE /\ r.voterStakes[c].activeStake = voterStakes[c].activeStake + p + a
                      /\ r.cumulativeActiveStake = cumulativeActiveStake + p + a
                      /\ r.voterStakes[c].pendingStake = 0
                      /\ r.cumulativePendingStake = cumulativePendingStake - p

\* a voter that staked in the restricted phase stakes again in it, and one
\* that still holds pending stake stakes after the phase has ended
C7_Witness ==
    \E c \in Voters :
        /\ voterStakes[c].pendingStake > 0
        /\ stake(Tx, c, 1, "ok").ok
        /\ custody = MaxCustody
        /\ \/ inReveal /\ voterStakes[c].pendingStake = MaxCustody
           \/ ~inReveal /\ voterStakes[c].activeStake > 0
\* the calls a voter can make in the current state, the token accepting every
\* transfer: the records they end with, each with the stake the body of the
\* call adds to the caller's active stake
VoterCalls(c) ==
    {[r |-> stake(Tx, c, a, "ok"), delta |-> a] : a \in Amounts}
    \cup {[r |-> requestUnstake(Tx, c, a), delta |-> 0 - a] : a \in Amounts}
    \cup {[r |-> executeUnstake(Tx, c, "ok"), delta |-> 0],
          [r |-> withdrawRewards(Tx, c, "ok"), delta |-> 0],
          [r |-> exit(Tx, c, "ok", "ok"), delta |-> 0]}

OwnerCalls ==
    {setEmissionRate(Tx, c, r) : c \in Callers, r \in 0..MaxRate}
    \cup {setUnstakeCoolDown(Tx, c, d) : c \in Callers, d \in 0..MaxCoolDown}

\* what every call would do to voter v's pending stake in the current state
C8_CallsOnPending(v) ==
    LET p == voterStakes[v].pendingStake
    IN  /\ \A k \in VoterCalls(v) :
              k.r.ok =>
                IF inReveal
                THEN /\ k.r.voterStakes[v].pendingStake >= p
                     /\ k.r.voterStakes[v].activeStake = voterStakes[v].activeStake
                ELSE /\ k.r.voterStakes[v].pendingStake = 0
                     /\ k.r.voterStakes[v].activeStake =
                            voterStakes[v].activeStake + p + k.delta
                     /\ k.r.cumulativePendingStake = cumulativePendingStake - p
                     /\ k.r.cumulativeActiveStake =
                            cumulativeActiveStake + p + k.delta
        /\ \A w \in Voters \ {v} : \A k \in VoterCalls(w) :
              /\ k.r.voterStakes[v].pendingStake = p
              /\ k.r.voterStakes[v].activeStake = voterStakes[v].activeStake
        /\ \A r \in OwnerCalls :
              /\ r.voterStakes = voterStakes
              /\ r.cumulativePendingStake = cumulativePendingStake
              /\ r.cumulativeActiveStake = cumulativeActiveStake

\* C8: pending stake of a voter stays pending until that voter's next successful
\* call outside the restricted phase, which moves all of it to the voter's
\* activeStake and the same amount from cumulativePendingStake to
\* cumulativeActiveStake; calls of other voters, the owner's calls, the passing
\* of time and the end of the phase never promote it.
C8_LazyPromotion ==
    /\ [](\A v \in Voters : C8_CallsOnPending(v))
    /\ [][\A v \in Voters :
             /\ (now' # now \/ inReveal' # inReveal) =>
                   /\ voterStakes' = voterStakes
                   /\ cumulativePendingStake' = cumulativePendingStake
                   /\ cumulativeActiveStake' = cumulativeActiveStake
             /\ voterStakes'[v].pendingStake < voterStakes[v].pendingStake =>
                   /\ ~inReveal
                   /\ voterStakes'[v].pendingStake = 0
                   /\ \E k \in VoterCalls(v) : k.r.ok /\ Committed(k.r)
         ]_vars

\* the phase has ended and another voter has staked since, yet the voter's
\* stake is still pending; the voter's own call would now promote it
C8_Witness ==
    \E v \in Voters, w \in Voters :
        /\ v # w
        /\ ~inReveal
        /\ voterStakes[v].pendingStake > 0
        /\ voterStakes[v].activeStake = 0
        /\ voterStakes[w].activeStake > 0
        /\ cumulativePendingStake = voterStakes[v].pendingStake
        /\ withdrawRewards(Tx, v, "ok").voterStakes[v].activeStake
               = voterStakes[v].pendingStake

\* what outstandingRewards(voter) answers now
OutstandingNow(v) == outstandingRewards(Tx, v)

HasNoStake(v) == voterStakes[v].activeStake + voterStakes[v].pendingStake = 0

\* C9: while a voter's activeStake + pendingStake is 0, outstandingRewards of
\* the voter keeps its value over every step, whatever time passes, whatever
\* the rate is and whatever the others do; only the voter's own withdrawal
\* changes it, to 0.
C9_NoStakeNoAccrual ==
    [][\A v \in Voters :
          (HasNoStake(v) /\ HasNoStake(v)') =>
              \/ OutstandingNow(v)' = OutstandingNow(v)
              \/ /\ OutstandingNow(v)' = 0
                 /\ \/ Committed(withdrawRewards(Tx, v, "ok"))
                    \/ Committed(exit(Tx, v, "ok", "ok"))
      ]_vars

\* a voter without stake whose snapshot the accumulator has left behind:
\* rewards are being emitted to the others, and the voter is owed earlier ones
C9_Witness ==
    \E v \in Voters :
        /\ HasNoStake(v)
        /\ rewardPerToken(Tx) > voterStakes[v].rewardsPaidPerToken
        /\ now > lastUpdateTime
        /\ emissionRate > 0

\* C10: funds in pendingUnstake earn nothing: once a requestUnstake has moved a
\* voter's whole stake to pendingUnstake, outstandingRewards of the voter stays
\* at what the request settled and a later withdrawRewards pays just that,
\* however much time passes while the others' stake keeps earning.
C10_PendingUnstakeEarnsNothing ==
    \A c \in Voters, a \in Amounts :
        LET r == requestUnstake(Tx, c, a)
        IN  (/\ r.ok /\ a > 0
             /\ r.voterStakes[c].activeStake + r.voterStakes[c].pendingStake = 0) =>
              \A t \in Times :
                 /\ outstandingRewards(Later(r, t), c)
                        = r.voterStakes[c].outstandingRewards
                 /\ withdrawRewards(Later(r, t), c, "ok").ret
                        = r.voterStakes[c].outstandingRewards

\* a voter moves its whole stake to pendingUnstake while another voter's stake
\* keeps the accumulator growing
C10_Witness ==
    \E c \in Voters, a \in Amounts :
        LET r == requestUnstake(Tx, c, a)
        IN  /\ r.ok /\ a > 0
            /\ r.voterStakes[c].activeStake + r.voterStakes[c].pendingStake = 0
            /\ r.voterStakes[c].pendingUnstake = a
            /\ r.voterStakes[c].outstandingRewards > 0
            /\ rewardPerToken(Later(r, now + 1)) > r.rewardPerTokenStored

\* -------------------------------------------- two stakes in proportion 1 : 3
\* A fresh ledger on which "v1" stakes s and "v2" stakes 3s in the same
\* block; after that only the clock, the phase and the owner's global
\* settlement (a setEmissionRate call that keeps the rate) move.
RatioMaxStake == 2
RatioMaxRate == 3
RatioMaxTime == 5

BothStaked ==
    /\ voterStakes["v1"].activeStake + voterStakes["v1"].pendingStake > 0
    /\ voterStakes["v2"].activeStake + voterStakes["v2"].pendingStake
         = 3 * (voterStakes["v1"].activeStake + voterStakes["v1"].pendingStake)

RatioInit ==
    /\ emissionRate \in 0..RatioMaxRate
    /\ unstakeCoolDown = 0
    /\ cumulativeActiveStake = 0
    /\ cumulativePendingStake = 0
    /\ rewardPerTokenStored = 0
    /\ lastUpdateTime = 0
    /\ voterStakes = [v \in Voters |-> VoterStake0]
    /\ custody = 0
    /\ now = StartTime
    /\ inReveal \in BOOLEAN
    /\ AuditIdle
    /\ GovernorIdle
    /\ PricesIdle

RatioStakeFirst ==
    \E a \in 1..RatioMaxStake :
        /\ cumulativeActiveStake + cumulativePendingStake = 0
        /\ Call(stake(Tx, "v1", a, "ok"))

RatioStakeSecond ==
    /\ voterStakes["v1"].activeStake + voterStakes["v1"].pendingStake > 0
    /\ voterStakes["v2"].activeStake + voterStakes["v2"].pendingStake = 0
    /\ Call(stake(Tx, "v2",
                  3 * (voterStakes["v1"].activeStake + voterStakes["v1"].pendingStake),
                  "ok"))

\* the owner's call settles the accumulator and keeps the rate
RatioSettle ==
    \E c \in {Owner} :
        Call(setEmissionRate(Tx, c, emissionRate))

\* the clock moves once both stakes are placed
RatioTick ==
    /\ BothStaked
    /\ now < RatioMaxTime
    /\ now' = now + 1
    /\ UNCHANGED <<ledgerVars, inReveal, auditVars, governorVars, pricesVars>>

RatioNext ==
    \/ RatioStakeFirst
    \/ RatioStakeSecond
    \/ RatioSettle
    \/ RatioTick
    \/ ToggleReveal

SpecRatio == RatioInit /\ [][RatioNext]_vars

\* C11: when two voters stake s and 3s at the same time and neither the
\* stakes nor the emission rate change afterwards, then after any elapsed
\* time the second voter's outstandingRewards differs from three times the
\* first voter's by fewer than 3 units.
C11_RewardsInProportion ==
    BothStaked =>
        /\ outstandingRewards(Tx, "v2") - 3 * outstandingRewards(Tx, "v1") < 3
        /\ 3 * outstandingRewards(Tx, "v1") - outstandingRewards(Tx, "v2") < 3

\* both have staked, the first voter has earned something and the integer
\* divisions have made the two rewards differ from the exact proportion
C11_Witness ==
    /\ BothStaked
    /\ outstandingRewards(Tx, "v1") > 0
    /\ outstandingRewards(Tx, "v2") # 3 * outstandingRewards(Tx, "v1")

\* ------------------------------------------------------------ sole staker
SoleMaxStake == 3

\* nobody has any stake and voter c is owed nothing
NoStakerYet(c) ==
    /\ ~inReveal
    /\ cumulativeActiveStake + cumulativePendingStake = 0
    /\ voterStakes[c].outstandingRewards = 0

\* c becomes the only staker with S active tokens, dt seconds pass and c
\* calls withdrawRewards()
SoleStakerWithdraws(c, S, dt) ==
    withdrawRewards(Later(stake(Tx, c, S, "ok"), now + dt), c, "ok")

\* C12 as stated: the sole staker's withdrawRewards() returns exactly
\* emissionRate * dt and leaves outstandingRewards at zero.
C12_AsStated ==
    \A c \in Voters, S \in 1..SoleMaxStake, dt \in 0..MaxElapsed :
        NoStakerYet(c) =>
            LET r == SoleStakerWithdraws(c, S, dt)
            IN  /\ r.ok
                /\ r.ret = emissionRate * dt
                /\ r.voterStakes[c].outstandingRewards = 0

\* C12: the sole staker's withdrawRewards() returns emissionRate * dt less
\* what the two integer divisions truncate: never more than emissionRate *
\* dt, exactly that when S divides emissionRate * dt * SCALE, and otherwise
\* short by less than 1 + S / SCALE units; outstandingRewards is left at 0.
C12_SoleStakerReward ==
    \A c \in Voters, S \in 1..SoleMaxStake, dt \in 0..MaxElapsed :
        NoStakerYet(c) =>
            LET r == SoleStakerWithdraws(c, S, dt)
            IN  /\ r.ok
                /\ r.ret <= emissionRate * dt
                /\ (emissionRate * dt * SCALE) % S = 0 => r.ret = emissionRate * dt
                /\ r.ret * SCALE > emissionRate * dt * SCALE - S - SCALE
                /\ r.minted = r.ret
                /\ r.voterStakes[c].outstandingRewards = 0
                /\ outstandingRewards(r, c) = 0

\* a sole staker who is paid the whole emission, and one whose payment is
\* truncated
C12_Witness ==
    /\ emissionRate > 0
    /\ \E c \in Voters, S \in 1..SoleMaxStake, dt \in 1..MaxElapsed :
          /\ NoStakerYet(c)
          /\ SoleStakerWithdraws(c, S, dt).ret = emissionRate * dt
    /\ \E c \in Voters, S \in 1..SoleMaxStake, dt \in 1..MaxElapsed :
          /\ NoStakerYet(c)
          /\ SoleStakerWithdraws(c, S, dt).ret < emissionRate * dt

\* --------------------------------------------------- withdrawing twice
\* C13: two withdrawRewards() calls in immediate succession pay once: the
\* first mints and returns the caller's outstanding rewards and zeroes the
\* field, the second mints nothing and returns 0.
C13_WithdrawTwicePaysOnce ==
    \A c \in Voters :
        LET owed == outstandingRewards(Tx, c)
            r1 == withdrawRewards(Tx, c, "ok")
            r2 == withdrawRewards(Later(r1, now), c, "ok")
        IN  /\ r1.ok
            /\ r1.ret = owed
            /\ r1.minted = owed
            /\ r1.voterStakes[c].outstandingRewards = 0
            /\ r2.ok
            /\ r2.ret = 0
            /\ r2.minted = 0
            /\ r2.voterStakes[c].outstandingRewards = 0

\* a voter who is owed rewards, so that the first call pays something
C13_Witness ==
    \E c \in Voters :
        /\ outstandingRewards(Tx, c) > 0
        /\ withdrawRewards(Tx, c, "ok").minted > 0

\* ------------------------------------------------------------------ exit
\* voter c has an unstake request whose cool-down has elapsed
MaturedRequest(c) ==
    /\ voterStakes[c].unstakeRequestTime # 0
    /\ now >= voterStakes[c].unstakeRequestTime + unstakeCoolDown

\* C14 as stated: without a matured unstake request exit() still pays the
\* rewards (the unstake step being a no-op), and with a matured request and
\* no rewards owed it still executes the unstake.
C14_AsStated ==
    \A c \in Voters :
        LET x == exit(Tx, c, "ok", "ok")
            owed == outstandingRewards(Tx, c)
        IN  /\ ~MaturedRequest(c) =>
                  /\ x.ok
                  /\ x.minted = owed
                  /\ x.sent = 0
            /\ (MaturedRequest(c) /\ owed = 0) =>
                  /\ x.ok
                  /\ x.sent = voterStakes[c].pendingUnstake
                  /\ x.voterStakes[c].pendingUnstake = 0

\* C14: exit() is executeUnstake() followed by withdrawRewards() in one
\* transaction.  Without a matured unstake request the whole call reverts
\* and pays no rewards; with a matured request it sends the pending unstake
\* and pays whatever rewards are owed, nothing when none are owed.
C14_ExitIsAtomic ==
    \A c \in Voters :
        LET x == exit(Tx, c, "ok", "ok")
            owed == outstandingRewards(Tx, c)
        IN  /\ ~MaturedRequest(c) => ~x.ok
            /\ MaturedRequest(c) =>
                  /\ x.ok
                  /\ x.sent = voterStakes[c].pendingUnstake
                  /\ x.voterStakes[c].pendingUnstake = 0
                  /\ x.minted = owed
                  /\ x.ret = owed
                  /\ x.voterStakes[c].outstandingRewards = 0

\* one voter is owed rewards and has no matured request, so exit() reverts;
\* another has a matured request for a positive amount and is owed nothing,
\* so exit() sends the stake back
C14_Witness ==
    /\ \E c \in Voters :
          /\ ~MaturedRequest(c)
          /\ outstandingRewards(Tx, c) > 0
          /\ ~exit(Tx, c, "ok", "ok").ok
    /\ \E c \in Voters :
          /\ MaturedRequest(c)
          /\ outstandingRewards(Tx, c) = 0
          /\ voterStakes[c].pendingUnstake > 0
          /\ exit(Tx, c, "ok", "ok").sent > 0

\* -------------------------------------------------------- rejected calls
\* the voter calls that a precondition rejects in the current state
RejectedCalls ==
    {r \in UNION {
        {stake(Tx, c, a, "ok") : c \in Voters, a \in Amounts},
        {requestUnstake(Tx, c, a) : c \in Voters, a \in Amounts},
        {executeUnstake(Tx, c, "ok") : c \in Voters},
        {withdrawRewards(Tx, c, "ok") : c \in Voters}} : ~r.ok}

C16_TokenFailureAborts ==
    \A c \in Voters, tok \in TokenFailures :
        /\ \A a \in Amounts : ~stake(Tx, c, a, tok).ok
        /\ executeUnstake(Tx, c, "ok").sent > 0 => ~executeUnstake(Tx, c, tok).ok
        /\ withdrawRewards(Tx, c, "ok").minted > 0 => ~withdrawRewards(Tx, c, tok).ok

\* ------------------------------------------------- changing the emission rate
\* the accumulator brought up to the current time at the rate in force
SettledAtCurrentRate ==
    IF cumulativeActiveStake + cumulativePendingStake = 0
    THEN rewardPerTokenStored
    ELSE rewardPerTokenStored
         + ((now - lastUpdateTime) * emissionRate * SCALE)
           \div (cumulativeActiveStake + cumulativePendingStake)

\* C17: setEmissionRate first settles the accumulator up to the current time
\* at the old rate and only then stores the new rate: the time before the
\* call is rewarded at the old rate (no voter's outstanding rewards move at
\* the call) and only the time after it at the new rate.
C17_OldRateUntilNow ==
    \A r \in 0..(MaxRate + 1) :
        LET x == setEmissionRate(Tx, Owner, r)
        IN  /\ x.ok
            /\ x.rewardPerTokenStored = SettledAtCurrentRate
            /\ x.lastUpdateTime = now
            /\ x.emissionRate = r
            /\ \A v \in Voters : outstandingRewards(x, v) = outstandingRewards(Tx, v)
            /\ \A t \in Times :
                  rewardPerToken(Later(x, t)) =
                      IF cumulativeActiveStake + cumulativePendingStake = 0
                      THEN SettledAtCurrentRate
                      ELSE SettledAtCurrentRate
                           + ((t - now) * r * SCALE)
                             \div (cumulativeActiveStake + cumulativePendingStake)

\* unsettled time at a positive rate with a voter who has earned rewards,
\* and a new rate under which the same interval would be worth something else
C17_Witness ==
    /\ cumulativeActiveStake + cumulativePendingStake > 0
    /\ now > lastUpdateTime
    /\ \E v \in Voters : outstandingRewards(Tx, v) > voterStakes[v].outstandingRewards
    /\ \E r \in 0..(MaxRate + 1) :
          /\ r # emissionRate
          /\ setEmissionRate(Tx, Owner, r).rewardPerTokenStored > rewardPerTokenStored
          /\ rewardPerToken([Tx EXCEPT !.emissionRate = r]) # SettledAtCurrentRate

\* ---------------------------------------------------------- re-entrancy
\* the calls voter c can make on storage s from inside an external call
ReentrantCalls(s, c) ==
    UNION {
        {executeUnstake(s, c, "ok"), withdrawRewards(s, c, "ok"),
         exit(s, c, "ok", "ok")},
        {stake(s, c, a, "ok") : a \in Amounts},
        {requestUnstake(s, c, a) : a \in Amounts}}

\* C18: when executeUnstake hands control to the custodian's transfer the
\* caller's pendingUnstake and unstakeRequestTime are already zero, and when
\* withdrawRewards hands control to mint the caller's outstandingRewards is
\* already zero; a re-entrant call of the same voter sends none of that
\* pending unstake and mints none of those rewards a second time.
C18_ClearedBeforeExternalCall ==
    \A c \in Voters :
        LET m == executeUnstakeBeforeTransfer(Tx, c)
            w == withdrawRewardsBeforeMint(Tx, c)
        IN  /\ (m.ok /\ voterStakes[c].pendingUnstake > 0) =>
                  /\ m.voterStakes[c].pendingUnstake = 0
                  /\ m.voterStakes[c].unstakeRequestTime = 0
                  /\ \A i \in ReentrantCalls(m, c) : i.ok => i.sent = 0
            /\ (w.ok /\ outstandingRewards(Tx, c) > 0) =>
                  /\ w.voterStakes[c].outstandingRewards = 0
                  /\ \A i \in ReentrantCalls(w, c) : i.ok => i.minted = 0

\* a matured request for a positive amount whose execution reaches the
\* transfer, and a voter with rewards whose withdrawal reaches the mint
C18_Witness ==
    /\ \E c \in Voters :
          /\ voterStakes[c].pendingUnstake > 0
          /\ executeUnstakeBeforeTransfer(Tx, c).ok
          /\ ~executeUnstake(executeUnstakeBeforeTransfer(Tx, c), c, "ok").ok
    /\ \E c \in Voters :
          /\ outstandingRewards(Tx, c) > 0
          /\ withdrawRewardsBeforeMint(Tx, c).ok
          /\ withdrawRewards(withdrawRewardsBeforeMint(Tx, c), c, "ok").minted = 0

\* ------------------------------------------------------ owner-only setters
\* C19: setEmissionRate and setUnstakeCoolDown take effect only when the
\* owner calls them; the call of any other account fails, so emissionRate,
\* unstakeCoolDown, rewardPerTokenStored and lastUpdateTime stay as they
\* were, and the two parameters change only by the owner's call.
C19_OnlyOwnerSets ==
    /\ [](\A c \in Callers :
            /\ \A r \in 0..MaxRate :
                  LET x == setEmissionRate(Tx, c, r)
                  IN  IF c = Owner
                      THEN x.ok /\ x.emissionRate = r
                      ELSE ~x.ok
            /\ \A d \in 0..MaxCoolDown :
                  LET x == setUnstakeCoolDown(Tx, c, d)
                  IN  IF c = Owner
                      THEN x.ok /\ x.unstakeCoolDown = d
                      ELSE ~x.ok)
    /\ [][/\ emissionRate' # emissionRate =>
                \E r \in 0..MaxRate : Committed(setEmissionRate(Tx, Owner, r))
           /\ unstakeCoolDown' # unstakeCoolDown =>
                \E d \in 0..MaxCoolDown : Committed(setUnstakeCoolDown(Tx, Owner, d))]_vars

\* a voter's attempt to set a different rate and a different cool-down in a
\* state where the accepted call would have moved the accumulator and
\* lastUpdateTime
C19_Witness ==
    \E c \in Voters, r \in 0..MaxRate, d \in 0..MaxCoolDown :
        /\ r # emissionRate
        /\ d # unstakeCoolDown
        /\ ~setEmissionRate(Tx, c, r).ok
        /\ ~setUnstakeCoolDown(Tx, c, d).ok
        /\ setEmissionRate(Tx, Owner, r).rewardPerTokenStored # rewardPerTokenStored
        /\ setEmissionRate(Tx, Owner, r).lastUpdateTime # lastUpdateTime

\* ------------------------------------------------------ global settlement
\* the global settlement on its own and every call that runs it
SettlingCalls ==
    UNION {
        {_updateReward(Tx, NoOne)},
        {_updateReward(Tx, c) : c \in Voters},
        {setEmissionRate(Tx, Owner, r) : r \in 0..MaxRate},
        {stake(Tx, c, a, "ok") : c \in Voters, a \in Amounts},
        {requestUnstake(Tx, c, a) : c \in Voters, a \in Amounts},
        {executeUnstake(Tx, c, "ok") : c \in Voters},
        {withdrawRewards(Tx, c, "ok") : c \in Voters}}

\* C20: global settlement sets rewardPerTokenStored to rewardPerTokenStored
\* + (now - lastUpdateTime) * emissionRate * SCALE / (cumulativeActiveStake +
\* cumulativePendingStake) with integer division and lastUpdateTime to the
\* current time; when the total stake is zero the accumulator keeps its
\* value and nothing is divided.
C20_GlobalSettlement ==
    /\ _updateReward(Tx, NoOne).ok
    /\ \A x \in SettlingCalls :
          x.ok =>
              /\ x.lastUpdateTime = now
              /\ x.rewardPerTokenStored =
                     IF cumulativeActiveStake + cumulativePendingStake = 0
                     THEN rewardPerTokenStored
                     ELSE rewardPerTokenStored
                          + ((now - lastUpdateTime) * emissionRate * SCALE)
                            \div (cumulativeActiveStake + cumulativePendingStake)

\* a settlement over a non-empty interval with stake and a positive rate,
\* which moves the accumulator
C20_Witness ==
    /\ cumulativeActiveStake + cumulativePendingStake > 0
    /\ now > lastUpdateTime
    /\ emissionRate > 0
    /\ _updateReward(Tx, NoOne).rewardPerTokenStored > rewardPerTokenStored
    /\ _updateReward(Tx, NoOne).lastUpdateTime > lastUpdateTime

\* ------------------------------------------------------- voter settlement
\* what voter c is owed once the accumulator is settled, on the stake c has
\* in storage before the call
OwedOnStoredStake(c) ==
    voterStakes[c].outstandingRewards
    + ((voterStakes[c].activeStake + voterStakes[c].pendingStake)
       * (SettledAtCurrentRate - voterStakes[c].rewardsPaidPerToken)) \div SCALE

\* C21: settlement for a voter raises the voter's stored outstandingRewards
\* by (activeStake + pendingStake) * (newAccumulator - rewardsPaidPerToken)
\* / SCALE, on the stake the voter had before the calling operation changes
\* it, and then sets the voter's rewardsPaidPerToken to newAccumulator.
C21_VoterSettlement ==
    \A c \in Voters :
        /\ _updateReward(Tx, c).ok
        /\ \A x \in UNION {
                  {_updateReward(Tx, c), _updateTrackers(Tx, c),
                   executeUnstake(Tx, c, "ok")},
                  {stake(Tx, c, a, "ok") : a \in Amounts},
                  {requestUnstake(Tx, c, a) : a \in Amounts}} :
              x.ok =>
                  /\ x.voterStakes[c].outstandingRewards = OwedOnStoredStake(c)
                  /\ x.voterStakes[c].rewardsPaidPerToken = SettledAtCurrentRate
        /\ LET w == withdrawRewards(Tx, c, "ok")
            IN  w.ok =>
                  /\ w.ret = OwedOnStoredStake(c)
                  /\ w.voterStakes[c].rewardsPaidPerToken = SettledAtCurrentRate

\* a voter with stake and unsettled time at a positive rate adds to the
\* stake: the settlement credits rewards, and would credit more on the
\* enlarged stake
C21_Witness ==
    \E c \in Voters, a \in 1..MaxAmount :
        /\ voterStakes[c].activeStake + voterStakes[c].pendingStake > 0
        /\ SettledAtCurrentRate > voterStakes[c].rewardsPaidPerToken
        /\ stake(Tx, c, a, "ok").ok
        /\ stake(Tx, c, a, "ok").voterStakes[c].outstandingRewards
             > voterStakes[c].outstandingRewards
        /\ outstandingRewards(stake(Tx, c, a, "ok"), c) = OwedOnStoredStake(c)

\* --------------------------------------------- stored rewards only grow
\* C22: a voter's stored outstandingRewards never decreases over any step,
\* except that the voter's own withdrawRewards or exit sets it to 0.
C22_StoredRewardsOnlyGrow ==
    [][\A v \in Voters :
          \/ voterStakes'[v].outstandingRewards >= voterStakes[v].outstandingRewards
          \/ /\ voterStakes'[v].outstandingRewards = 0
             /\ \/ Committed(withdrawRewards(Tx, v, "ok"))
                \/ Committed(exit(Tx, v, "ok", "ok"))
      ]_vars

\* a voter with stored rewards and stake whose settlement one second later
\* adds to them
C22_Witness ==
    \E v \in Voters :
        /\ voterStakes[v].outstandingRewards > 0
        /\ voterStakes[v].activeStake + voterStakes[v].pendingStake > 0
        /\ _updateReward(Later(Tx, now + 1), v).voterStakes[v].outstandingRewards
             > voterStakes[v].outstandingRewards

\* ------------------------------------------- settlement at the start of calls
\* the calls that run the settlement routine
CallsThatSettle ==
    UNION {
        {setEmissionRate(Tx, Owner, r) : r \in 0..MaxRate},
        {stake(Tx, c, a, "ok") : c \in Voters, a \in Amounts},
        {requestUnstake(Tx, c, a) : c \in Voters, a \in Amounts},
        {executeUnstake(Tx, c, "ok") : c \in Voters},
        {withdrawRewards(Tx, c, "ok") : c \in Voters},
        {exit(Tx, c, "ok", "ok") : c \in Voters}}

\* C23 as stated: every mutating entry point, setUnstakeCoolDown included,
\* settles first, so that lastUpdateTime is the current time after each
\* successful call.
C23_AsStated ==
    \A x \in CallsThatSettle
             \cup {setUnstakeCoolDown(Tx, Owner, d) : d \in 0..MaxCoolDown} :
        x.ok =>
            /\ x.lastUpdateTime = now
            /\ x.rewardPerTokenStored = _updateReward(Tx, NoOne).rewardPerTokenStored

\* C23: stake, requestUnstake, executeUnstake, withdrawRewards, exit and
\* setEmissionRate settle the accumulator on the totals found in storage
\* before they change any stake, so that lastUpdateTime is the current time
\* after each successful call; setUnstakeCoolDown does not settle: it
\* changes unstakeCoolDown only and leaves lastUpdateTime and
\* rewardPerTokenStored as they were.
C23_SettlementAtStart ==
    /\ \A x \in CallsThatSettle :
          x.ok =>
              /\ x.lastUpdateTime = now
              /\ x.rewardPerTokenStored = _updateReward(Tx, NoOne).rewardPerTokenStored
    /\ \A d \in 0..MaxCoolDown :
          setUnstakeCoolDown(Tx, Owner, d) = [Tx EXCEPT !.unstakeCoolDown = d]

\* unsettled time with stake at a positive rate: a call that settles moves
\* the accumulator and lastUpdateTime, the cool-down setter moves neither
C23_Witness ==
    /\ now > lastUpdateTime
    /\ _updateReward(Tx, NoOne).rewardPerTokenStored > rewardPerTokenStored
    /\ \E c \in Voters : stake(Tx, c, 0, "ok").lastUpdateTime = now
    /\ \E d \in 0..MaxCoolDown :
          /\ d # unstakeCoolDown
          /\ setUnstakeCoolDown(Tx, Owner, d).ok
          /\ setUnstakeCoolDown(Tx, Owner, d).lastUpdateTime < now

\* ----------------------------------------------------- staking twice
\* the ledger part of a transaction record
StorageOf(s) ==
    <<s.emissionRate, s.cumulativeActiveStake, s.cumulativePendingStake,
      s.rewardPerTokenStored, s.lastUpdateTime, s.unstakeCoolDown,
      s.voterStakes, s.custody>>

\* C24 as stated: a second stake(amount) in the same phase with no time
\* passing leaves the ledger as it was after the first.
C24_AsStated ==
    \A c \in Voters, a \in Amounts :
        LET r1 == stake(Tx, c, a, "ok")
            r2 == stake(Later(r1, now), c, a, "ok")
        IN  r1.ok => (r2.ok /\ StorageOf(r2) = StorageOf(r1))

\* C24: stake(amount) adds: a second stake(amount) in the same phase with no
\* time passing succeeds and raises the caller's stake (activeStake outside
\* the restricted phase, pendingStake inside it), the matching cumulative
\* counter and the custody by amount once more, and leaves the rest of the
\* ledger as after the first call; only stake(0) leaves the ledger as it was.
C24_StakeAdds ==
    \A c \in Voters, a \in Amounts :
        LET r1 == stake(Tx, c, a, "ok")
            r2 == stake(Later(r1, now), c, a, "ok")
        IN  r1.ok =>
              /\ r2.ok
              /\ StorageOf(r2) =
                    StorageOf(IF inReveal
                              THEN [r1 EXCEPT
                                      !.voterStakes[c].pendingStake = @ + a,
                                      !.cumulativePendingStake = @ + a,
                                      !.custody = @ + a]
                              ELSE [r1 EXCEPT
                                      !.voterStakes[c].activeStake = @ + a,
                                      !.cumulativeActiveStake = @ + a,
                                      !.custody = @ + a])
              /\ (StorageOf(r2) = StorageOf(r1)) <=> (a = 0)

\* a voter who already holds stake stakes a positive amount twice
C24_Witness ==
    \E c \in Voters, a \in 1..MaxAmount :
        /\ voterStakes[c].activeStake + voterStakes[c].pendingStake > 0
        /\ stake(Tx, c, a, "ok").ok
        /\ stake(Later(stake(Tx, c, a, "ok"), now), c, a, "ok").custody = custody + 2 * a

\* ------------------------------------------------- custody and the books
\* C25: as long as the custodian's transfers succeed or revert, after every
\* operation the staked asset held in custody is the sum over the voters of
\* activeStake + pendingStake + pendingUnstake, so that every matured
\* pendingUnstake is paid out in full.
C25_CustodyMatchesBooks ==
    /\ custody =
          SumOver([v \in Voters |->
                      voterStakes[v].activeStake + voterStakes[v].pendingStake
                      + voterStakes[v].pendingUnstake], Voters)
    /\ \A c \in Voters :
          MaturedRequest(c) =>
              /\ executeUnstake(Tx, c, "ok").ok
              /\ executeUnstake(Tx, c, "ok").sent = voterStakes[c].pendingUnstake
              /\ executeUnstake(Tx, c, "ok").custody
                   = custody - voterStakes[c].pendingUnstake

\* the custody holds one voter's matured pending unstake next to another
\* voter's stake
C25_Witness ==
    \E c \in Voters, v \in Voters :
        /\ c # v
        /\ MaturedRequest(c)
        /\ voterStakes[c].pendingUnstake > 0
        /\ voterStakes[v].activeStake + voterStakes[v].pendingStake > 0
        /\ custody > voterStakes[c].pendingUnstake

\* ------------------------------------------------- audit of the reward flow
\* The ledger with two counters kept beside it: totalMinted, the rewards the
\* custodian has minted, and totalEmitted, emissionRate times the length of
\* every elapsed interval during which some stake was in place.
AuditMaxRate == 1
AuditMaxTime == 3
AuditMaxCustody == 2

AuditInit ==
    /\ emissionRate \in 0..AuditMaxRate
    /\ unstakeCoolDown = 0
    /\ cumulativeActiveStake = 0
    /\ cumulativePendingStake = 0
    /\ rewardPerTokenStored = 0
    /\ lastUpdateTime = 0
    /\ voterStakes = [v \in Voters |-> VoterStake0]
    /\ custody = 0
    /\ now = StartTime
    /\ inReveal = FALSE
    /\ AuditIdle
    /\ GovernorIdle
    /\ PricesIdle

\* a call whose mint, if the call is not reverted, is added to totalMinted
Audited(s) ==
    /\ IF s.ok THEN Committed(s) ELSE UNCHANGED ledgerVars
    /\ totalMinted' = totalMinted + (IF s.ok THEN s.minted ELSE 0)
    /\ UNCHANGED <<now, inReveal, totalEmitted, governorVars, pricesVars>>

AuditStake ==
    \E c \in Voters, a \in 0..MaxAmount :
        /\ custody + a <= AuditMaxCustody
        /\ Audited(stake(Tx, c, a, "ok"))

AuditRequestUnstake ==
    \E c \in Voters, a \in 0..MaxAmount :
        Audited(requestUnstake(Tx, c, a))

AuditExecuteUnstake ==
    \E c \in Voters :
        Audited(executeUnstake(Tx, c, "ok"))

AuditWithdrawRewards ==
    \E c \in Voters, tok \in TokenOutcomes :
        Audited(withdrawRewards(Tx, c, tok))

AuditExit ==
    \E c \in Voters :
        Audited(exit(Tx, c, "ok", "ok"))

AuditSetEmissionRate ==
    \E r \in 0..AuditMaxRate :
        Audited(setEmissionRate(Tx, Owner, r))

\* one second passes at the rate in force
AuditTick ==
    /\ now < AuditMaxTime
    /\ now' = now + 1
    /\ totalEmitted' = totalEmitted
                        + (IF cumulativeActiveStake + cumulativePendingStake > 0
                           THEN emissionRate ELSE 0)
    /\ UNCHANGED <<ledgerVars, inReveal, totalMinted, governorVars, pricesVars>>

AuditNext ==
    \/ AuditStake
    \/ AuditRequestUnstake
    \/ AuditExecuteUnstake
    \/ AuditWithdrawRewards
    \/ AuditExit
    \/ AuditSetEmissionRate
    \/ AuditTick
    \/ ToggleReveal

SpecAudit == AuditInit /\ [][AuditNext]_vars

\* C26: rewards are never over-issued: after any sequence of operations the
\* rewards already minted plus the sum over the voters of
\* outstandingRewards(voter) is at most the sum over the elapsed intervals
\* of emissionRate times the interval's length, intervals without any stake
\* counting for nothing.
C26_NeverOverIssued ==
    totalMinted + SumOver([v \in Voters |-> outstandingRewards(Tx, v)], Voters)
        <= totalEmitted

\* rewards have been minted, and the integer divisions have kept part of
\* the emission from being owed to anybody
C26_Witness ==
    /\ totalMinted > 0
    /\ totalMinted + SumOver([v \in Voters |-> outstandingRewards(Tx, v)], Voters)
         < totalEmitted

\* ------------------------------------------------------ the others' records
\* C27: a stake, requestUnstake, executeUnstake, withdrawRewards or exit
\* call of one voter leaves every other voter's record as it was:
\* activeStake, pendingStake, pendingUnstake, unstakeRequestTime,
\* rewardsPaidPerToken and the stored outstandingRewards.
C27_OthersUntouched ==
    \A c \in Voters : \A v \in Voters \ {c} :
        \A x \in UNION {
                {stake(Tx, c, a, tok) : a \in Amounts, tok \in TokenOutcomes},
                {requestUnstake(Tx, c, a) : a \in Amounts},
                {executeUnstake(Tx, c, tok) : tok \in TokenOutcomes},
                {withdrawRewards(Tx, c, tok) : tok \in TokenOutcomes},
                {exit(Tx, c, "ok", "ok")}} :
            x.ok => x.voterStakes[v] = voterStakes[v]

\* the other voter has pending stake ready for promotion and rewards not
\* yet settled, and the caller's operation succeeds and changes the caller
C27_Witness ==
    \E c \in Voters : \E v \in Voters \ {c} :
        /\ ~inReveal
        /\ voterStakes[v].pendingStake > 0
        /\ _updateTrackers(Tx, v).voterStakes[v] # voterStakes[v]
        /\ rewardPerToken(Tx) > voterStakes[v].rewardsPaidPerToken
        /\ withdrawRewards(Tx, c, "ok").ok
        /\ withdrawRewards(Tx, c, "ok").voterStakes[c] # voterStakes[c]

\* ------------------------------------------- the cool-down that gates execution
\* C28: executeUnstake is gated by the unstakeCoolDown in force when it is
\* called: after the owner sets the cool-down to d, a request made earlier
\* is executable at time t exactly when t >= unstakeRequestTime + d,
\* whatever the cool-down was when the request was made.
C28_CoolDownAtExecution ==
    \A c \in Voters, d \in 0..(MaxCoolDown + 1), t \in Times :
        LET x == setUnstakeCoolDown(Tx, Owner, d)
            e == executeUnstake(Later(x, t), c, "ok")
        IN  /\ x.ok
            /\ e.ok <=> /\ voterStakes[c].unstakeRequestTime # 0
                        /\ t >= voterStakes[c].unstakeRequestTime + d

\* an outstanding request that the cool-down in force still blocks and that
\* becomes executable at once when the owner sets the cool-down to 0
C28_Witness ==
    \E c \in Voters :
        /\ voterStakes[c].pendingUnstake > 0
        /\ voterStakes[c].unstakeRequestTime # 0
        /\ ~executeUnstake(Tx, c, "ok").ok
        /\ executeUnstake(setUnstakeCoolDown(Tx, Owner, 0), c, "ok").ok
        /\ executeUnstake(setUnstakeCoolDown(Tx, Owner, 0), c, "ok").sent
             = voterStakes[c].pendingUnstake

\* -------------------------------------------------- the view and the payment
\* C29: the query outstandingRewards(voter), evaluated at a time t, gives
\* the amount that a withdrawRewards() call of that voter at the same time t
\* mints and returns.
C29_ViewAgreesWithWithdrawal ==
    \A c \in Voters, t \in Times :
        LET w == withdrawRewards(Later(Tx, t), c, "ok")
        IN  /\ w.ok
            /\ w.ret = outstandingRewards(Later(Tx, t), c)
            /\ w.minted = outstandingRewards(Later(Tx, t), c)

\* a voter whose rewards are partly stored and partly not yet settled at
\* the time of the query
C29_Witness ==
    \E c \in Voters, t \in Times :
        /\ voterStakes[c].outstandingRewards > 0
        /\ outstandingRewards(Later(Tx, t), c) > voterStakes[c].outstandingRewards
        /\ withdrawRewards(Later(Tx, t), c, "ok").minted
             > voterStakes[c].outstandingRewards

\* =========================================================== GovernorV2
\* Proposals of governance transactions (unnamed/part_001).  Proposal ids
\* count from 0; proposal id is element id + 1 of the sequence.
GovMaxStartingId == 1
GovMaxProposals == 1
GovMaxTransactions == 3
GovMaxEmergencyTransactions == 2
GovMaxTime == 2

ZeroAddress == "0x0"
Proposer == "proposer"
EmergencyProposer == "safetyModule"
GovCallers == {Proposer, EmergencyProposer, "anyone"}
CallOutcomes == {"ok", "fail"}

\* Address.isContract
isContract(a) == a = "contract"

\* a deleted (zero-valued) struct Transaction
Transaction0 == [to |-> ZeroAddress, value |-> 0, data |-> ""]

\* a zero-initialized struct Proposal
Proposal0 == [transactions |-> <<>>, requestTime |-> 0, ancillaryData |-> ""]

\* the transactions a caller may put into a proposal: a call of a contract,
\* a payment to an account, a transaction to the zero address and data sent
\* to an account
TransactionChoices ==
    {[to |-> "contract", value |-> 0, data |-> "d"],
     [to |-> "eoa", value |-> 1, data |-> ""],
     [to |-> ZeroAddress, value |-> 0, data |-> ""],
     [to |-> "eoa", value |-> 0, data |-> "d"]}

TransactionLists ==
    UNION {[1..n -> TransactionChoices] : n \in 0..GovMaxTransactions}

\* the governor's storage at the start of a call, the oracle's and the
\* safety module's answers, the clock, Lockable's flag (true between
\* transactions) and the call's outcome (ok: not reverted, executed: the
\* external calls made)
GTx ==
    [proposals |-> proposals,
     emergencyProposals |-> emergencyProposals,
     approved |-> approved,
     ratified |-> ratified,
     time |-> now,
     notEntered |-> TRUE,
     ok |-> TRUE, executed |-> <<>>]

\* Lockable.nonReentrant: the call is refused while another nonReentrant
\* function of the contract is running
nonReentrant(g) == g.notEntered

\* the storage while a nonReentrant function runs
Entered(g) == [g EXCEPT !.notEntered = FALSE]

\* AdminIdentifierLib._constructIdentifier: the identifier of the vote on
\* proposal id
_constructIdentifier(id) == <<"Admin", id>>

\* the price request the oracle is asked about
PriceRequest(identifier, time, ancillaryData) ==
    [identifier |-> identifier, time |-> time, ancillaryData |-> ancillaryData]

\* _getOracle().getPrice(identifier, requestTime, ancillaryData) != 0;
\* approved holds the requests the oracle has a nonzero price for
oracleApproves(g, id) ==
    PriceRequest(_constructIdentifier(id),
                 g.proposals[id + 1].requestTime,
                 g.proposals[id + 1].ancillaryData) \in g.approved

\* _getSafetyModule().isProposalRatified(id)
isProposalRatified(g, id) == id \in g.ratified

numProposals(g) == Len(g.proposals)

numEmergencyProposals(g) == Len(g.emergencyProposals)

\* the require statements of _appendTransactionsToProposal
appendReverts(transactions) ==
    \E i \in 1..Len(transactions) :
        \/ transactions[i].to = ZeroAddress
        \/ (transactions[i].data # "" /\ ~isContract(transactions[i].to))

_appendTransactionsToProposal(transactions, proposal) ==
    [proposal EXCEPT !.transactions = @ \o transactions]

propose(g, sender, transactions, ancillaryData) ==
    IF ~nonReentrant(g) THEN Revert(g)
    ELSE IF sender # Proposer THEN Revert(g)
    ELSE IF appendReverts(transactions) THEN Revert(g)
    ELSE [g EXCEPT !.proposals =
             Append(@, _appendTransactionsToProposal(
                           transactions,
                           [Proposal0 EXCEPT !.requestTime = g.time,
                                             !.ancillaryData = ancillaryData]))]

proposeEmergencyAction(g, sender, transactions) ==
    IF ~nonReentrant(g) THEN Revert(g)
    ELSE IF sender # EmergencyProposer THEN Revert(g)
    ELSE IF appendReverts(transactions) THEN Revert(g)
    ELSE [g EXCEPT !.emergencyProposals =
             Append(@, _appendTransactionsToProposal(
                           transactions,
                           [Proposal0 EXCEPT !.requestTime = g.time]))]

\* faulty variant: the transaction is still stored when the call is made
_executeProposalTransactionBeforeCall_KeepsTransaction(g, proposal, transactionIndex, msgValue) ==
    IF ~g.ok THEN [g |-> g, proposal |-> proposal]
    ELSE IF transactionIndex >= Len(proposal.transactions)
    THEN [g |-> Revert(g), proposal |-> proposal]
    ELSE LET transaction == proposal.transactions[transactionIndex + 1]
         IN  IF ~(\/ transactionIndex = 0
                  \/ proposal.transactions[transactionIndex].to = ZeroAddress)
             THEN [g |-> Revert(g), proposal |-> proposal]
             ELSE IF transaction.to = ZeroAddress
             THEN [g |-> Revert(g), proposal |-> proposal]
             ELSE IF msgValue # transaction.value
             THEN [g |-> Revert(g), proposal |-> proposal]
             ELSE [g |-> g, proposal |-> proposal]

\* _executeProposalTransaction up to the external call: the requirements
\* and the deletion of the stored transaction
_executeProposalTransactionBeforeCall(g, proposal, transactionIndex, msgValue) ==
    IF ~g.ok THEN [g |-> g, proposal |-> proposal]
    ELSE IF transactionIndex >= Len(proposal.transactions)
    THEN [g |-> Revert(g), proposal |-> proposal]
    ELSE LET transaction == proposal.transactions[transactionIndex + 1]
         IN  IF ~(\/ transactionIndex = 0
                  \/ proposal.transactions[transactionIndex].to = ZeroAddress)
             THEN [g |-> Revert(g), proposal |-> proposal]
             ELSE IF transaction.to = ZeroAddress
             THEN [g |-> Revert(g), proposal |-> proposal]
             ELSE IF msgValue # transaction.value
             THEN [g |-> Revert(g), proposal |-> proposal]
             ELSE [g |-> g,
                   proposal |-> [proposal EXCEPT
                                   !.transactions[transactionIndex + 1] = Transaction0]]

\* faulty variant: a transaction is executed whether or not the one before it has been
_executeProposalTransaction_AnyOrder(g, proposal, transactionIndex, msgValue, outcome) ==
    IF ~g.ok THEN [g |-> g, proposal |-> proposal]
    ELSE IF transactionIndex >= Len(proposal.transactions)
    THEN [g |-> Revert(g), proposal |-> proposal]
    ELSE LET transaction == proposal.transactions[transactionIndex + 1]
         IN  IF transaction.to = ZeroAddress
             THEN [g |-> Revert(g), proposal |-> proposal]
             ELSE IF msgValue # transaction.value
             THEN [g |-> Revert(g), proposal |-> proposal]
             ELSE IF outcome # "ok"
             THEN [g |-> Revert(g), proposal |-> proposal]
             ELSE [g |-> [g EXCEPT !.executed = Append(@, transaction)],
                   proposal |-> [proposal EXCEPT
                                   !.transactions[transactionIndex + 1] = Transaction0]]

\* the result is the transaction record and the proposal as stored after
\* the call; outcome is the success flag of _executeCall
_executeProposalTransaction(g, proposal, transactionIndex, msgValue, outcome) ==
    LET b == _executeProposalTransactionBeforeCall(g, proposal,
                                                   transactionIndex, msgValue)
    IN  IF ~b.g.ok THEN b
        ELSE IF outcome # "ok"
        THEN [g |-> Revert(g), proposal |-> proposal]
        ELSE [g |-> [b.g EXCEPT !.executed =
                        Append(@, proposal.transactions[transactionIndex + 1])],
              proposal |-> b.proposal]

\* executeProposal at the moment it hands control to the transaction's
\* recipient: the storage the recipient finds
executeProposalBeforeCall(g, id, transactionIndex, msgValue) ==
    IF ~nonReentrant(g) THEN Revert(g)
    ELSE IF id >= Len(g.proposals) THEN Revert(g)
    ELSE IF ~oracleApproves(g, id) THEN Revert(g)
    ELSE LET r == _executeProposalTransactionBeforeCall(
                      g, g.proposals[id + 1], transactionIndex, msgValue)
         IN  IF ~r.g.ok THEN r.g
             ELSE Entered([r.g EXCEPT !.proposals[id + 1] = r.proposal])

\* faulty variant: the oracle is not asked
executeProposal_Unapproved(g, id, transactionIndex, msgValue, outcome) ==
    IF ~nonReentrant(g) THEN Revert(g)
    ELSE IF id >= Len(g.proposals) THEN Revert(g)
    ELSE LET r == _executeProposalTransaction(g, g.proposals[id + 1],
                                              transactionIndex, msgValue, outcome)
         IN  IF ~r.g.ok THEN r.g
             ELSE [r.g EXCEPT !.proposals[id + 1] = r.proposal]

executeProposal(g, id, transactionIndex, msgValue, outcome) ==
    IF ~nonReentrant(g) THEN Revert(g)
    ELSE IF id >= Len(g.proposals) THEN Revert(g)
    ELSE IF ~oracleApproves(g, id) THEN Revert(g)
    ELSE LET r == _executeProposalTransaction(g, g.proposals[id + 1],
                                              transactionIndex, msgValue, outcome)
         IN  IF ~r.g.ok THEN r.g
             ELSE [r.g EXCEPT !.proposals[id + 1] = r.proposal]

\* executeEmergencyProposal at the moment it hands control to the
\* transaction's recipient
executeEmergencyProposalBeforeCall(g, id, transactionIndex, msgValue) ==
    IF ~nonReentrant(g) THEN Revert(g)
    ELSE IF id >= Len(g.emergencyProposals) THEN Revert(g)
    ELSE IF ~isProposalRatified(g, id) THEN Revert(g)
    ELSE LET r == _executeProposalTransactionBeforeCall(
                      g, g.emergencyProposals[id + 1], transactionIndex, msgValue)
         IN  IF ~r.g.ok THEN r.g
             ELSE Entered([r.g EXCEPT !.emergencyProposals[id + 1] = r.proposal])

executeEmergencyProposal(g, id, transactionIndex, msgValue, outcome) ==
    IF ~nonReentrant(g) THEN Revert(g)
    ELSE IF id >= Len(g.emergencyProposals) THEN Revert(g)
    ELSE IF ~isProposalRatified(g, id) THEN Revert(g)
    ELSE LET r == _executeProposalTransaction(g, g.emergencyProposals[id + 1],
                                              transactionIndex, msgValue, outcome)
         IN  IF ~r.g.ok THEN r.g
             ELSE [r.g EXCEPT !.emergencyProposals[id + 1] = r.proposal]

getProposal(g, id) == g.proposals[id + 1]

\* ------------------------------------------------------- governor steps
\* the ledger is not part of the governor: it stays as constructed
LedgerIdle ==
    /\ emissionRate = 0
    /\ unstakeCoolDown = 0
    /\ cumulativeActiveStake = 0
    /\ cumulativePendingStake = 0
    /\ rewardPerTokenStored = 0
    /\ lastUpdateTime = 0
    /\ voterStakes = [v \in Voters |-> VoterStake0]
    /\ custody = 0
    /\ inReveal = FALSE

\* the constructor sets the length of proposals to _startingId
GovInit ==
    /\ \E startingId \in 0..GovMaxStartingId :
          proposals = [i \in 1..startingId |-> Proposal0]
    /\ emergencyProposals = <<>>
    /\ approved = {}
    /\ ratified = {}
    /\ now = StartTime
    /\ LedgerIdle
    /\ AuditIdle
    /\ PricesIdle

GovCall(g) ==
    /\ IF g.ok
       THEN /\ proposals' = g.proposals
            /\ emergencyProposals' = g.emergencyProposals
       ELSE UNCHANGED <<proposals, emergencyProposals>>
    /\ UNCHANGED <<approved, ratified, ledgerVars, now, inReveal, auditVars, pricesVars>>

\* the proposals made by propose (the constructor's have no request time)
Proposed == {k \in 1..Len(proposals) : proposals[k].requestTime # 0}

Propose ==
    \E c \in GovCallers, transactions \in TransactionLists :
        /\ Cardinality(Proposed) < GovMaxProposals
        /\ GovCall(propose(GTx, c, transactions, "a"))

ProposeEmergencyAction ==
    \E c \in GovCallers, transactions \in TransactionLists :
        /\ Len(transactions) <= GovMaxEmergencyTransactions
        /\ Len(emergencyProposals) < GovMaxProposals
        /\ GovCall(proposeEmergencyAction(GTx, c, transactions))

ExecuteProposal ==
    \E id \in 0..(GovMaxStartingId + GovMaxProposals),
       i \in 0..GovMaxTransactions, v \in 0..1, outcome \in CallOutcomes :
        GovCall(executeProposal(GTx, id, i, v, outcome))

ExecuteEmergencyProposal ==
    \E id \in 0..GovMaxProposals,
       i \in 0..GovMaxTransactions, v \in 0..1, outcome \in CallOutcomes :
        GovCall(executeEmergencyProposal(GTx, id, i, v, outcome))

\* the oracle resolves a vote to a nonzero price: the vote on a proposal, or
\* a vote with the proposal's identifier requested at another time (one
\* oracle serves successive governors)
OracleApproves ==
    \E id \in 0..(Len(proposals) - 1) :
      \E time \in {proposals[id + 1].requestTime, 0} :
        /\ approved' = approved \cup
               {PriceRequest(_constructIdentifier(id), time,
                             proposals[id + 1].ancillaryData)}
        /\ UNCHANGED <<proposals, emergencyProposals, ratified,
                       ledgerVars, now, inReveal, auditVars, pricesVars>>

\* the safety module ratifies an emergency proposal
SafetyModuleRatifies ==
    \E id \in 0..(Len(emergencyProposals) - 1) :
        /\ ratified' = ratified \cup {id}
        /\ UNCHANGED <<proposals, emergencyProposals, approved,
                       ledgerVars, now, inReveal, auditVars, pricesVars>>

GovTick ==
    /\ now < GovMaxTime
    /\ now' = now + 1
    /\ UNCHANGED <<ledgerVars, inReveal, auditVars, governorVars, pricesVars>>

GovNext ==
    \/ Propose
    \/ ProposeEmergencyAction
    \/ ExecuteProposal
    \/ ExecuteEmergencyProposal
    \/ OracleApproves
    \/ SafetyModuleRatifies
    \/ GovTick

SpecGovernor == GovInit /\ [][GovNext]_vars

\* transaction i (counted from 0) of a stored proposal has been executed
Executed(proposal, i) == proposal.transactions[i + 1].to = ZeroAddress

AllProposals ==
    {proposals[k] : k \in 1..Len(proposals)}
    \cup {emergencyProposals[k] : k \in 1..Len(emergencyProposals)}

\* C30: the transactions of a proposal are executed in increasing index
\* order with none skipped: executeProposal(id, i) and
\* executeEmergencyProposal(id, i) with i > 0 succeed only when transaction
\* i - 1 of that proposal has been executed, and the executed transactions
\* of every proposal are the first ones of its list.
C30_ExecutedInOrder ==
    /\ \A p \in AllProposals : \A i \in 1..(Len(p.transactions) - 1) :
          Executed(p, i) => Executed(p, i - 1)
    /\ \A i \in 1..GovMaxTransactions, v \in 0..1, outcome \in CallOutcomes :
          /\ \A id \in 0..(Len(proposals) - 1) :
                executeProposal(GTx, id, i, v, outcome).ok =>
                    /\ Executed(proposals[id + 1], i - 1)
                    /\ ~Executed(proposals[id + 1], i)
          /\ \A id \in 0..(Len(emergencyProposals) - 1) :
                executeEmergencyProposal(GTx, id, i, v, outcome).ok =>
                    /\ Executed(emergencyProposals[id + 1], i - 1)
                    /\ ~Executed(emergencyProposals[id + 1], i)

\* an approved proposal of three transactions whose first is executed: the
\* second can be executed now, the third is still refused
C30_Witness ==
    \E id \in 0..(Len(proposals) - 1) :
        /\ Len(proposals[id + 1].transactions) = 3
        /\ oracleApproves(GTx, id)
        /\ Executed(proposals[id + 1], 0)
        /\ \E v \in 0..1 : executeProposal(GTx, id, 1, v, "ok").ok
        /\ \A v \in 0..1 : ~executeProposal(GTx, id, 2, v, "ok").ok

\* ------------------------------------------------------- at most once
GovIds == 0..(GovMaxStartingId + GovMaxProposals)
GovIndices == 0..GovMaxTransactions
GovValues == 0..1

\* the calls anyone can make on storage g from inside an executed call
GovReentrantCalls(g) ==
    UNION {
        {propose(g, c, transactions, "a") :
             c \in GovCallers, transactions \in TransactionLists},
        {proposeEmergencyAction(g, c, transactions) :
             c \in GovCallers, transactions \in TransactionLists},
        {executeProposal(g, id, i, v, "ok") :
             id \in GovIds, i \in GovIndices, v \in GovValues},
        {executeEmergencyProposal(g, id, i, v, "ok") :
             id \in GovIds, i \in GovIndices, v \in GovValues}}

\* the storage as it is after a rejected call
Rejected(g) == [g EXCEPT !.ok = TRUE]

\* what holds of transaction (id, i) in every state: execute is the entry
\* point, beforeCall the same up to the external call, stored(g) the
\* proposals it works on
AtMostOnce(execute(_, _, _, _, _), beforeCall(_, _, _, _), stored(_)) ==
    \A id \in 0..(Len(stored(GTx)) - 1) :
      \A i \in 0..(Len(stored(GTx)[id + 1].transactions) - 1) :
        \* an executed transaction is refused
        /\ Executed(stored(GTx)[id + 1], i) =>
              \A v \in GovValues, outcome \in CallOutcomes :
                  ~execute(GTx, id, i, v, outcome).ok
        /\ \A v \in GovValues :
              LET r == execute(GTx, id, i, v, "ok")
                  m == beforeCall(GTx, id, i, v)
                  f == execute(GTx, id, i, v, "fail")
              IN  /\ m.ok <=> r.ok
                  \* a successful execution makes one call and leaves the
                  \* transaction executed; a second attempt is refused
                  /\ r.ok =>
                        /\ Len(r.executed) = 1
                        /\ Executed(stored(r)[id + 1], i)
                        /\ \A v2 \in GovValues, outcome \in CallOutcomes :
                              ~execute(r, id, i, v2, outcome).ok
                  \* inside the call the transaction is already deleted,
                  \* every entry point is locked, and (id, i) would be
                  \* refused even without the lock
                  /\ m.ok =>
                        /\ Executed(stored(m)[id + 1], i)
                        /\ \A c \in GovReentrantCalls(m) : ~c.ok
                        /\ \A v2 \in GovValues, outcome \in CallOutcomes :
                              ~execute([m EXCEPT !.notEntered = TRUE],
                                       id, i, v2, outcome).ok
                  \* a failed call aborts the execution: the proposal is as
                  \* before and the transaction can still be executed
                  /\ m.ok =>
                        /\ ~f.ok
                        /\ stored(f) = stored(GTx)
                        /\ execute(Rejected(f), id, i, v, "ok").ok

StoredProposals(g) == g.proposals
StoredEmergencyProposals(g) == g.emergencyProposals

\* an executed transaction of a stored proposal stays executed
StaysExecuted(old, new) ==
    /\ Len(new) >= Len(old)
    /\ \A k \in 1..Len(old) :
          /\ Len(new[k].transactions) = Len(old[k].transactions)
          /\ \A i \in 0..(Len(old[k].transactions) - 1) :
                Executed(old[k], i) => Executed(new[k], i)

\* C31: each transaction of a proposal is executed at most once.  A
\* successful executeProposal(id, i) or executeEmergencyProposal(id, i)
\* makes one external call and leaves the transaction deleted; a deleted
\* transaction stays deleted and every later attempt to execute it fails,
\* also an attempt made from inside the executed call (the transaction is
\* deleted before the call and all entry points are non-reentrant); when the
\* external call fails the execution is aborted with the proposal unchanged
\* and the transaction still executable.
C31_AtMostOnce ==
    /\ [](/\ AtMostOnce(executeProposal, executeProposalBeforeCall,
                        StoredProposals)
          /\ AtMostOnce(executeEmergencyProposal,
                        executeEmergencyProposalBeforeCall,
                        StoredEmergencyProposals))
    /\ [][/\ StaysExecuted(proposals, proposals')
          /\ StaysExecuted(emergencyProposals, emergencyProposals')]_vars

\* an approved proposal whose first transaction has been executed and whose
\* second is reaching its external call
C31_Witness ==
    \E id \in 0..(Len(proposals) - 1) :
        /\ oracleApproves(GTx, id)
        /\ Len(proposals[id + 1].transactions) >= 2
        /\ Executed(proposals[id + 1], 0)
        /\ ~Executed(proposals[id + 1], 1)
        /\ \E v \in GovValues : executeProposalBeforeCall(GTx, id, 1, v).ok

\* ------------------------------------------------- approval is required
\* the oracle has a nonzero price for the vote on stored proposal id
PriceIsNonzero(id) ==
    [identifier |-> _constructIdentifier(id),
     time |-> proposals[id + 1].requestTime,
     ancillaryData |-> proposals[id + 1].ancillaryData] \in approved

\* a refused call: reverted, no external call made, the proposals as before
Refused(r) ==
    /\ ~r.ok
    /\ r.executed = <<>>
    /\ r.proposals = proposals
    /\ r.emergencyProposals = emergencyProposals

\* the stored proposals that differ after a step
Changed(old, new) ==
    {id \in 0..(Len(old) - 1) : id < Len(new) /\ new[id + 1] # old[id + 1]}

\* C32: no transaction is executed without approval.  executeProposal makes
\* an external call, and changes the proposal, only when the oracle has a
\* nonzero price for the proposal's identifier, requestTime and
\* ancillaryData; executeEmergencyProposal only when the safety module
\* reports the proposal ratified; otherwise the call reverts and the
\* proposals stay as they are.
C32_ApprovalRequired ==
    /\ [](\A i \in GovIndices, v \in GovValues, outcome \in CallOutcomes :
            /\ \A id \in 0..(Len(proposals) - 1) :
                  LET r == executeProposal(GTx, id, i, v, outcome)
                  IN  /\ (r.ok \/ r.executed # <<>>) => PriceIsNonzero(id)
                      /\ ~PriceIsNonzero(id) => Refused(r)
            /\ \A id \in 0..(Len(emergencyProposals) - 1) :
                  LET r == executeEmergencyProposal(GTx, id, i, v, outcome)
                  IN  /\ (r.ok \/ r.executed # <<>>) => id \in ratified
                      /\ id \notin ratified => Refused(r))
    /\ [][/\ \A id \in Changed(proposals, proposals') : PriceIsNonzero(id)
          /\ \A id \in Changed(emergencyProposals, emergencyProposals') :
                id \in ratified]_vars

\* a proposal the oracle has not approved (it holds a price for the same
\* identifier at another time only) whose first transaction is refused and
\* would be executed with the approval, next to a ratified emergency
\* proposal whose first transaction has been executed
C32_Witness ==
    /\ \E id \in 0..(Len(proposals) - 1) :
          /\ ~PriceIsNonzero(id)
          /\ \E q \in approved : q.identifier = _constructIdentifier(id)
          /\ \E v \in GovValues :
                /\ ~executeProposal(GTx, id, 0, v, "ok").ok
                /\ executeProposal(
                       [GTx EXCEPT !.approved = @ \cup
                           {PriceRequest(_constructIdentifier(id),
                                         proposals[id + 1].requestTime,
                                         proposals[id + 1].ancillaryData)}],
                       id, 0, v, "ok").ok
    /\ \E id \in 0..(Len(emergencyProposals) - 1) :
          /\ id \in ratified
          /\ Len(emergencyProposals[id + 1].transactions) > 0
          /\ Executed(emergencyProposals[id + 1], 0)

\* ------------------------------------------------ an executed proposal
\* all transactions of the proposal have been executed
FullyExecuted(proposal) ==
    /\ Len(proposal.transactions) > 0
    /\ \A i \in 0..(Len(proposal.transactions) - 1) : Executed(proposal, i)

\* C33: after all transactions of a proposal have been executed,
\* getProposal(id) returns it with every transaction entry zeroed and the
\* ancillary data empty; only requestTime keeps the value set by propose.
C33_ZeroedExceptRequestTime ==
    \A id \in 0..(Len(proposals) - 1) :
        FullyExecuted(proposals[id + 1]) =>
            LET p == getProposal(GTx, id)
            IN  /\ \A k \in 1..Len(p.transactions) :
                      p.transactions[k] = Transaction0
                /\ p.ancillaryData = ""
                /\ p.requestTime # 0

\* ========================================================== price service
\* The price service of the api package (packages/api/src/services/prices.ts):
\* update = updatePricesProfiled runs backfillPrices and then updatePrices,
\* which calls update() of six services and awaits Promise.allSettled.

\* what a service's update() can reject with: an Error (it has a message),
\* a value without a message property (a string), or nothing (undefined)
Reasons == {"Error", "string", "undefined"}

\* the ways the promise of one update() settles
Settlements ==
    {[status |-> "fulfilled", reason |-> "none"]}
    \cup {[status |-> "rejected", reason |-> r] : r \in Reasons}

Pending == [status |-> "pending", reason |-> "none"]

AllSettled(rs) ==
    \A i \in 1..Len(rs) : rs[i].status \in {"fulfilled", "rejected"}

\* the JavaScript expression reason.message, converted to a string by +;
\* reading a property of undefined throws a TypeError
reasonMessage(reason) ==
    IF reason = "Error" THEN [thrown |-> "none", text |-> "the error's message"]
    ELSE IF reason = "undefined" THEN [thrown |-> "TypeError", text |-> ""]
    ELSE [thrown |-> "none", text |-> "undefined"]

\* results.forEach(...) from element i on: console.error is called for the
\* rejected results in order; an exception ends the loop
RECURSIVE reportRejected(_, _, _)
reportRejected(rs, i, errors) ==
    IF i > Len(rs) THEN [thrown |-> "none", errors |-> errors]
    ELSE IF rs[i].status # "rejected"
    THEN reportRejected(rs, i + 1, errors)
    ELSE LET m == reasonMessage(rs[i].reason)
         IN  IF m.thrown # "none"
             THEN [thrown |-> m.thrown, errors |-> errors]
             ELSE reportRejected(rs, i + 1,
                      Append(errors, <<"Error Updating Prices: ", m.text>>))

PricesInit ==
    /\ PricesIdle
    /\ LedgerIdle
    /\ AuditIdle
    /\ GovernorIdle
    /\ now = StartTime

PricesFrame == UNCHANGED <<ledgerVars, now, inReveal, auditVars, governorVars>>

\* update() is called while no earlier call is running: profile(...) hands
\* out end and backfillPrices starts
UpdatePricesProfiled ==
    /\ updatePricesProfiledPromise \in {"notCalled", "fulfilled", "rejected"}
    /\ updatePricesProfiledPromise' = "backfilling"
    /\ updatePricesPromise' = "notCalled"
    /\ results' = [i \in 1..Len(Services) |-> NotCalled]
    /\ consoleErrors' = <<>>
    /\ ended' = FALSE
    /\ PricesFrame

\* backfillPrices settles.  When it rejects, updatePricesProfiled rejects;
\* otherwise updatePrices is called: it calls the six update() one after
\* the other without awaiting and then awaits Promise.allSettled
BackfillPrices ==
    \E outcome \in {"fulfilled", "rejected"} :
        /\ updatePricesProfiledPromise = "backfilling"
        /\ IF outcome = "rejected"
           THEN /\ updatePricesProfiledPromise' = "rejected"
                /\ UNCHANGED <<results, updatePricesPromise>>
           ELSE /\ updatePricesProfiledPromise' = "awaiting"
                /\ updatePricesPromise' = "pending"
                /\ results' = [i \in 1..Len(Services) |-> Pending]
        /\ UNCHANGED <<consoleErrors, ended>>
        /\ PricesFrame

\* the promise of one service's update() settles
Settle ==
    \E i \in 1..Len(Services), s \in Settlements :
        /\ results[i] = Pending
        /\ results' = [results EXCEPT ![i] = s]
        /\ UNCHANGED <<updatePricesPromise, updatePricesProfiledPromise,
                       consoleErrors, ended>>
        /\ PricesFrame

\* Promise.allSettled has fulfilled: updatePrices goes on with forEach and
\* returns, or ends with the exception thrown in the loop
UpdatePricesResumes ==
    /\ updatePricesPromise = "pending"
    /\ AllSettled(results)
    /\ LET r == reportRejected(results, 1, consoleErrors)
       IN  /\ consoleErrors' = r.errors
           /\ updatePricesPromise' =
                  IF r.thrown = "none" THEN "fulfilled" ELSE "rejected"
    /\ UNCHANGED <<results, updatePricesProfiledPromise, ended>>
    /\ PricesFrame

\* updatePrices().catch(console.error).finally(end)
UpdatePricesProfiledResumes ==
    /\ updatePricesProfiledPromise = "awaiting"
    /\ updatePricesPromise \in {"fulfilled", "rejected"}
    /\ consoleErrors' =
           IF updatePricesPromise = "rejected"
           THEN Append(consoleErrors, <<"TypeError">>)
           ELSE consoleErrors
    /\ ended' = TRUE
    /\ updatePricesProfiledPromise' = "fulfilled"
    /\ UNCHANGED <<results, updatePricesPromise>>
    /\ PricesFrame

PricesNext ==
    \/ UpdatePricesProfiled
    \/ BackfillPrices
    \/ Settle
    \/ UpdatePricesResumes
    \/ UpdatePricesProfiledResumes

SpecPrices == PricesInit /\ [][PricesNext]_vars

\* C34: updatePrices starts the six updates together, and the rejection of
\* any of them neither keeps the others from completing nor makes
\* updatePrices reject: once updatePrices is called all six updates are
\* running, the settling of one update leaves the others as they are,
\* updatePrices settles only when all six have settled, and it never
\* rejects.
C34_RejectionsAreContained ==
    /\ [](updatePricesPromise # "notCalled" =>
              \A i \in 1..Len(Services) : results[i].status # "notCalled")
    /\ [](updatePricesPromise \in {"fulfilled", "rejected"} =>
              AllSettled(results))
    /\ [](updatePricesPromise # "rejected")
    /\ [][\A i \in 1..Len(Services) :
              (results[i] = Pending /\ results'[i] # Pending) =>
                  \A j \in 1..Len(Services) \ {i} : results'[j] = results[j]]_vars

====
